---- MODULE Spec2Model ----
(***************************************************************************)
(* logmd: the timeline browser (package tui) and the entry store (package  *)
(* vault), modelled from the Go source.                                    *)
(*                                                                         *)
(* Go slices are 0-based; TLA+ sequences are 1-based.  The model keeps the *)
(* Go values of cursor and scrollOffset and reads entries[cursor + 1].     *)
(***************************************************************************)
EXTENDS Integers, Sequences, FiniteSets, TLC

(***************************************************************************)
(* Bounds of the model.                                                    *)
(***************************************************************************)
\* longest entry list a load delivers
MaxEntries == 3
\* most children the journal directory holds
MaxFiles == 3
\* most lines an entry's content has
MaxLines == 6
\* largest preview_lines setting
MaxPreview == 3

(***************************************************************************)
(* package tui: state of the Model struct, plus what the runtime observes  *)
(* of one Update call (the returned command, the delivered message).       *)
(***************************************************************************)
VARIABLES
    entries,         \* Model.entries: sequence of Entry
    cursor,          \* Model.cursor
    viewportHeight,  \* Model.viewportHeight
    scrollOffset,    \* Model.scrollOffset
    quitting,        \* Model.quitting
    loading,         \* Model.loading
    err,             \* Model.err ("nil" or an error value)
    cmd,             \* the tea.Cmd returned by the last Update ("nil", "quit", "load")
    lastMsg,         \* the tea.Msg handed to the last Update
    repeated,        \* the last Update was handed the same tea.Msg as the one before it
    loadInFlight,    \* the LoadEntriesCmd of Init has not delivered its message yet
    loadsIssued,     \* number of LoadEntriesCmd dispatched so far
    panicked         \* a slice index was out of range (Go runtime panic)

tuiVars == <<entries, cursor, viewportHeight, scrollOffset, quitting, loading,
             err, cmd, lastMsg, repeated, loadInFlight, loadsIssued,
             panicked>>

(***************************************************************************)
(* package vault: the journal directory on disk, and the last operation on *)
(* it with what it returned.                                               *)
(***************************************************************************)
VARIABLES
    files,           \* the children of Vault.Directory: name -> [kind, content, size, mtime, mode]
    ret,             \* the last operation on the directory: [op, arg, val, err]
    dirStatus,       \* "ok", "unreadable" (os.ReadDir fails), "unavailable" (os.MkdirAll
                     \* fails) or "absent" (not made yet; only the commands start there)
    lastWrite        \* per date: the content of the store's last successful write,
                     \* if nothing else has written that date's file since

vaultVars == <<files, ret, dirStatus, lastWrite>>

(***************************************************************************)
(* package tui, the loader: one call of extractTitleAndPreview.            *)
(***************************************************************************)
VARIABLES
    extraction       \* [content, previewLines, done, title, preview] of the call

loaderVars == <<extraction>>

(***************************************************************************)
(* adjustScroll called on its own, on a Model with any scroll offset.      *)
(***************************************************************************)
VARIABLES
    reclamps         \* number of those calls made so far

scrollVars == <<reclamps>>

(***************************************************************************)
(* package config and the command `config`: what the settings are resolved *)
(* from.                                                                   *)
(***************************************************************************)
VARIABLES
    environ,         \* the process environment: variable name -> value, or Unset
    configFile       \* ~/.logmdconfig: [status, keys], keys being the settings it defines

configVars == <<environ, configFile>>

(***************************************************************************)
(* Go slices: Model.entries and LoadEntriesMsg.Entries are slice headers   *)
(* that point into backing arrays; a copied Model or message points into   *)
(* the same array as the original.                                         *)
(***************************************************************************)
VARIABLES
    heap,            \* backing array -> the entries in it now
    slice,           \* the backing array Model.entries points into
    held             \* what the caller of the last Update still holds: the Model
                     \* it passed and the last load message, each with the array
                     \* its list points into and the entries it had when passed

heapVars == <<heap, slice, held>>

vars == <<tuiVars, vaultVars, loaderVars, scrollVars, configVars, heapVars>>

(***************************************************************************)
(* Inputs.                                                                 *)
(***************************************************************************)
\* the dates of the journal, newest first (the order ListEntries returns)
JournalDates == <<"2024-01-20", "2024-01-15", "2024-01-10", "2024-01-05", "2024-01-01">>

\* Entry as createEntryFromDate builds it: Expanded is false
NewEntry(i) ==
    [Date |-> JournalDates[i], Title |-> "(untitled)", Preview |-> <<>>,
     Expanded |-> FALSE]

\* the entry list of a journal holding the n newest dates
Listing(n) == [i \in 1..n |-> NewEntry(i)]

\* a journal long enough for a page key to move the cursor a whole page
LongDates ==
    <<"2024-03-14", "2024-03-13", "2024-03-12", "2024-03-11", "2024-03-10",
      "2024-03-09", "2024-03-08", "2024-03-07", "2024-03-06", "2024-03-05",
      "2024-03-04", "2024-03-03", "2024-03-02", "2024-03-01">>
LongListLen == MaxEntries + 9
LongListing ==
    [i \in 1..LongListLen |->
        [Date |-> LongDates[i], Title |-> "(untitled)", Preview |-> <<>>,
         Expanded |-> FALSE]]

\* msg.String() of the keys the terminal can send; "x" stands for any unbound key
QuitKeys == {"q", "ctrl+c"}
NavKeys == {"up", "k", "down", "j", "pgup", "pgdown", "home", "end"}
ToggleKeys == {"enter", " "}
Keys == QuitKeys \cup NavKeys \cup ToggleKeys \cup {"x"}

\* terminal heights of tea.WindowSizeMsg
Heights == {8, 10, 11, 12, 24}

KeyMsg(k) == [type |-> "key", key |-> k]
WindowSizeMsg(h) == [type |-> "resize", Height |-> h]
LoadEntriesMsg(es, e) == [type |-> "load", Entries |-> es, Error |-> e]
NoMsg == [type |-> "none"]

\* what LoadEntriesCmd can deliver: a list, or (nil, error)
LoadResults ==
    {LoadEntriesMsg(Listing(n), "nil") : n \in 0..MaxEntries}
        \cup {LoadEntriesMsg(<<>>, "io")}

\* every LoadEntriesMsg an Update call is given in the model
LoadMsgs == LoadResults \cup {LoadEntriesMsg(Listing(1), "io")}

(***************************************************************************)
(* The Model value the variables hold.                                     *)
(***************************************************************************)
Model ==
    [entries |-> entries, cursor |-> cursor, viewportHeight |-> viewportHeight,
     scrollOffset |-> scrollOffset, quitting |-> quitting, loading |-> loading,
     err |-> err]

NewModel ==
    [entries |-> <<>>, cursor |-> 0, viewportHeight |-> 20, scrollOffset |-> 0,
     quitting |-> FALSE, loading |-> TRUE, err |-> "nil"]

(***************************************************************************)
(* adjustScroll                                                            *)
(***************************************************************************)
\* adjustScroll without the step that raises a negative offset to 0
adjustScrollNoLowerBound(m) ==
    LET visibleHeight == m.viewportHeight - 4
        s1 == IF m.cursor < m.scrollOffset THEN m.cursor ELSE m.scrollOffset
        s2 == IF m.cursor >= s1 + visibleHeight
              THEN m.cursor - visibleHeight + 1 ELSE s1
        len == Len(m.entries) - visibleHeight
        maxScroll == IF len < 0 THEN 0 ELSE len
        s4 == IF s2 > maxScroll THEN maxScroll ELSE s2
    IN  [m EXCEPT !.scrollOffset = s4]

\* adjustScroll with the largest offset left negative for a list shorter than the window
adjustScrollMaxScrollUnclamped(m) ==
    LET visibleHeight == m.viewportHeight - 4
        s1 == IF m.cursor < m.scrollOffset THEN m.cursor ELSE m.scrollOffset
        s2 == IF m.cursor >= s1 + visibleHeight
              THEN m.cursor - visibleHeight + 1 ELSE s1
        s3 == IF s2 < 0 THEN 0 ELSE s2
        maxScroll == Len(m.entries) - visibleHeight
        s4 == IF s3 > maxScroll THEN maxScroll ELSE s3
    IN  [m EXCEPT !.scrollOffset = s4]

adjustScroll(m) ==
    LET visibleHeight == m.viewportHeight - 4
        s1 == IF m.cursor < m.scrollOffset THEN m.cursor ELSE m.scrollOffset
        s2 == IF m.cursor >= s1 + visibleHeight
              THEN m.cursor - visibleHeight + 1 ELSE s1
        s3 == IF s2 < 0 THEN 0 ELSE s2
        len == Len(m.entries) - visibleHeight
        maxScroll == IF len < 0 THEN 0 ELSE len
        s4 == IF s3 > maxScroll THEN maxScroll ELSE s3
    IN  [m EXCEPT !.scrollOffset = s4]

(***************************************************************************)
(* handleKeyPress: the result is the returned model, the returned command  *)
(* and whether the call panicked.                                          *)
(***************************************************************************)
Result(m, c) == [m |-> m, cmd |-> c, panic |-> FALSE]
Panic(m) == [m |-> m, cmd |-> "nil", panic |-> TRUE]

\* enter/space that expands the entry and never collapses it
toggleExpandedOnlyExpands(m) ==
    IF m.cursor < Len(m.entries)
    THEN IF m.cursor >= 0
         THEN Result([m EXCEPT !.entries[m.cursor + 1].Expanded = TRUE], "nil")
         ELSE Panic(m)
    ELSE Result(m, "nil")

\* enter/space without the test of the cursor against the length of the list
toggleExpandedUnguarded(m) ==
    IF m.cursor >= 0 /\ m.cursor < Len(m.entries)
    THEN Result([m EXCEPT !.entries[m.cursor + 1].Expanded = ~@], "nil")
    ELSE Panic(m)

toggleExpanded(m) ==
    IF m.cursor < Len(m.entries)
    THEN IF m.cursor >= 0
         THEN Result([m EXCEPT !.entries[m.cursor + 1].Expanded = ~@], "nil")
         ELSE Panic(m)
    ELSE Result(m, "nil")

\* the keys on a non-empty list, with down wrapping from the last entry to the first
handleKeyPressEntriesWraps(m, key) ==
    CASE key \in {"q", "ctrl+c"} ->
            Result([m EXCEPT !.quitting = TRUE], "quit")
      [] key \in {"up", "k"} ->
            IF m.cursor > 0
            THEN Result(adjustScroll([m EXCEPT !.cursor = m.cursor - 1]), "nil")
            ELSE Result(m, "nil")
      [] key \in {"down", "j"} ->
            IF m.cursor < Len(m.entries) - 1
            THEN Result(adjustScroll([m EXCEPT !.cursor = m.cursor + 1]), "nil")
            ELSE Result(adjustScroll([m EXCEPT !.cursor = 0]), "nil")
      [] key \in {"enter", " "} -> toggleExpanded(m)
      [] key = "pgup" ->
            LET c == m.cursor - 10
            IN  Result(adjustScroll([m EXCEPT !.cursor = IF c < 0 THEN 0 ELSE c]), "nil")
      [] key = "pgdown" ->
            LET c == m.cursor + 10
            IN  Result(adjustScroll([m EXCEPT !.cursor =
                           IF c >= Len(m.entries) THEN Len(m.entries) - 1 ELSE c]), "nil")
      [] key = "home" ->
            Result(adjustScroll([m EXCEPT !.cursor = 0]), "nil")
      [] key = "end" ->
            Result(adjustScroll([m EXCEPT !.cursor = Len(m.entries) - 1]), "nil")
      [] OTHER -> Result(m, "nil")

handleKeyPressEntries(m, key) ==
    CASE key \in {"q", "ctrl+c"} ->
            Result([m EXCEPT !.quitting = TRUE], "quit")
      [] key \in {"up", "k"} ->
            IF m.cursor > 0
            THEN Result(adjustScroll([m EXCEPT !.cursor = m.cursor - 1]), "nil")
            ELSE Result(m, "nil")
      [] key \in {"down", "j"} ->
            IF m.cursor < Len(m.entries) - 1
            THEN Result(adjustScroll([m EXCEPT !.cursor = m.cursor + 1]), "nil")
            ELSE Result(m, "nil")
      [] key \in {"enter", " "} -> toggleExpanded(m)
      [] key = "pgup" ->
            LET c == m.cursor - 10
            IN  Result(adjustScroll([m EXCEPT !.cursor = IF c < 0 THEN 0 ELSE c]), "nil")
      [] key = "pgdown" ->
            LET c == m.cursor + 10
            IN  Result(adjustScroll([m EXCEPT !.cursor =
                           IF c >= Len(m.entries) THEN Len(m.entries) - 1 ELSE c]), "nil")
      [] key = "home" ->
            Result(adjustScroll([m EXCEPT !.cursor = 0]), "nil")
      [] key = "end" ->
            Result(adjustScroll([m EXCEPT !.cursor = Len(m.entries) - 1]), "nil")
      [] OTHER -> Result(m, "nil")

\* handleKeyPress without its guard on an empty entry list
handleKeyPressUnguarded(m, key) == handleKeyPressEntries(m, key)

\* handleKeyPress that ignores every key, the quit keys too, on an empty list
handleKeyPressQuitNeedsEntries(m, key) ==
    IF Len(m.entries) = 0
    THEN Result(m, "nil")
    ELSE handleKeyPressEntries(m, key)

handleKeyPress(m, key) ==
    IF Len(m.entries) = 0
    THEN IF key \in {"q", "ctrl+c"}
         THEN Result([m EXCEPT !.quitting = TRUE], "quit")
         ELSE Result(m, "nil")
    ELSE handleKeyPressEntries(m, key)

(***************************************************************************)
(* Update                                                                  *)
(***************************************************************************)
\* WindowSizeMsg handled with the error cleared
updateWindowSizeClearsError(m, msg) ==
    Result([m EXCEPT !.viewportHeight = msg.Height - 6, !.err = "nil"], "nil")

updateWindowSize(m, msg) ==
    Result([m EXCEPT !.viewportHeight = msg.Height - 6], "nil")

\* LoadEntriesMsg handled with the entries stored before the error is looked at
updateLoadEntriesErrorStoresEntries(m, msg) ==
    IF msg.Error # "nil"
    THEN Result([m EXCEPT !.loading = FALSE, !.entries = msg.Entries,
                          !.err = msg.Error], "nil")
    ELSE Result([m EXCEPT !.loading = FALSE, !.entries = msg.Entries], "nil")

\* LoadEntriesMsg handled with a failed load dispatched again
updateLoadEntriesRetry(m, msg) ==
    IF msg.Error # "nil"
    THEN Result([m EXCEPT !.loading = TRUE, !.err = msg.Error], "load")
    ELSE Result([m EXCEPT !.loading = FALSE, !.entries = msg.Entries], "nil")

\* LoadEntriesMsg handled with the delivered entries appended
updateLoadEntriesAppend(m, msg) ==
    IF msg.Error # "nil"
    THEN Result([m EXCEPT !.loading = FALSE, !.err = msg.Error], "nil")
    ELSE Result([m EXCEPT !.loading = FALSE, !.entries = m.entries \o msg.Entries], "nil")

\* LoadEntriesMsg handled with the loading flag left set on an error
updateLoadEntriesKeepsLoading(m, msg) ==
    IF msg.Error # "nil"
    THEN Result([m EXCEPT !.err = msg.Error], "nil")
    ELSE Result([m EXCEPT !.loading = FALSE, !.entries = msg.Entries], "nil")

updateLoadEntries(m, msg) ==
    IF msg.Error # "nil"
    THEN Result([m EXCEPT !.loading = FALSE, !.err = msg.Error], "nil")
    ELSE Result([m EXCEPT !.loading = FALSE, !.entries = msg.Entries], "nil")

Update(m, msg) ==
    CASE msg.type = "key" -> handleKeyPress(m, msg.key)
      [] msg.type = "resize" -> updateWindowSize(m, msg)
      [] msg.type = "load" -> updateLoadEntries(m, msg)
      [] OTHER -> Result(m, "nil")

(***************************************************************************)
(* View (view.go): the screen as the list of what is written to it.        *)
(***************************************************************************)
\* visibleRange: start and end index, end included
visibleRange(m) ==
    LET start == m.scrollOffset
        end == start + m.viewportHeight - 4
    IN  [start |-> start,
         end |-> IF end >= Len(m.entries) THEN Len(m.entries) - 1 ELSE end]

\* strings.TrimSpace(previewLine) != "" for a preview line
previewLineShown(line) == \E j \in 1..Len(line) : line[j] \notin {" ", "\t", "\r", "\n"}

RECURSIVE shownPreview(_)
\* the preview lines renderEntry writes
shownPreview(preview) ==
    IF preview = <<>> THEN <<>>
    ELSE (IF previewLineShown(Head(preview)) THEN <<Head(preview)>> ELSE <<>>)
             \o shownPreview(Tail(preview))

\* renderEntry: the row of entry number i
renderEntry(i, entry, selected) ==
    [index |-> i, date |-> entry.Date, title |-> entry.Title, selected |-> selected,
     preview |-> IF entry.Expanded /\ Len(entry.Preview) > 0
                 THEN shownPreview(entry.Preview)
                 ELSE <<>>]

RECURSIVE renderRows(_, _, _)
\* the loop of View over the entries from index i on
renderRows(m, i, end) ==
    IF i <= end /\ i < Len(m.entries)
    THEN <<renderEntry(i, m.entries[i + 1], i = m.cursor)>> \o renderRows(m, i + 1, end)
    ELSE <<>>

\* the help line under the list
HelpText == "up/k up - down/j down - enter/space toggle - q quit"

\* View that looks at the entry list before the error and the loading flag
ViewEmptyFirst(m) ==
    IF Len(m.entries) = 0
    THEN [form |-> "empty", text |-> "No journal entries found.", rows |-> <<>>,
          help |-> ""]
    ELSE IF m.err # "nil"
    THEN [form |-> "error", text |-> m.err, rows |-> <<>>, help |-> ""]
    ELSE IF m.loading
    THEN [form |-> "loading", text |-> "Loading journal entries...", rows |-> <<>>,
          help |-> ""]
    ELSE LET r == visibleRange(m)
         IN  [form |-> "list", text |-> "Journal Timeline",
              rows |-> renderRows(m, r.start, r.end), help |-> HelpText]

View(m) ==
    IF m.err # "nil"
    THEN [form |-> "error", text |-> m.err, rows |-> <<>>, help |-> ""]
    ELSE IF m.loading
    THEN [form |-> "loading", text |-> "Loading journal entries...", rows |-> <<>>,
          help |-> ""]
    ELSE IF Len(m.entries) = 0
    THEN [form |-> "empty", text |-> "No journal entries found.", rows |-> <<>>,
          help |-> ""]
    ELSE LET r == visibleRange(m)
         IN  [form |-> "list", text |-> "Journal Timeline",
              rows |-> renderRows(m, r.start, r.end), help |-> HelpText]

\* the indices i at which the loop of View reads m.entries[i]
viewReads(m) ==
    IF m.err # "nil" \/ m.loading \/ Len(m.entries) = 0
    THEN {}
    ELSE {i \in visibleRange(m).start..visibleRange(m).end : i < Len(m.entries)}

(***************************************************************************)
(* The event loop: one message at a time is handed to Update, the returned *)
(* model replaces the current one and the returned command is dispatched.  *)
(***************************************************************************)
\* the variables of package tui after Update(Model, msg)
UpdateModel(msg, inFlight) ==
    LET r == Update(Model, msg)
    IN  /\ ~panicked
        /\ entries' = r.m.entries
        /\ cursor' = r.m.cursor
        /\ viewportHeight' = r.m.viewportHeight
        /\ scrollOffset' = r.m.scrollOffset
        /\ quitting' = r.m.quitting
        /\ loading' = r.m.loading
        /\ err' = r.m.err
        /\ cmd' = r.cmd
        /\ panicked' = r.panic
        /\ lastMsg' = msg
        /\ repeated' = (msg = lastMsg)
        /\ loadInFlight' = (inFlight \/ r.cmd = "load")
        /\ loadsIssued' = loadsIssued + (IF r.cmd = "load" THEN 1 ELSE 0)

Deliver(msg, inFlight) ==
    /\ UpdateModel(msg, inFlight)
    /\ UNCHANGED <<vaultVars, loaderVars, scrollVars, configVars, heapVars>>

\* the backing arrays of one run: the one of NewModel's []Entry{} and the one
\* loadEntriesFromVault makes for its result
Arrays == {"NewModel", "loadEntriesFromVault"}
NilSlice == "nil"

InitHeap ==
    /\ heap = [a \in Arrays |-> <<>>]
    /\ slice = "NewModel"
    /\ held = [m |-> [slice |-> "NewModel", entries |-> <<>>],
               msg |-> [slice |-> NilSlice, entries |-> <<>>]]

\* the array msg.Entries points into
sliceOfMsg(msg) == IF msg.Error = "nil" THEN "loadEntriesFromVault" ELSE NilSlice

\* the array the entries of the Model returned by Update point into: the
\* message's on m.entries = msg.Entries, else the receiver's, whose header
\* the value receiver copied
sliceAfterUpdate(msg) ==
    IF msg.type = "load" /\ msg.Error = "nil" THEN sliceOfMsg(msg) ELSE slice

\* a caller hands the Model and a message to Update and keeps both: writes
\* to m.entries[i] land in the array m.entries points into
UpdateCall(msg) ==
    /\ UpdateModel(msg, IF msg.type = "load" THEN FALSE ELSE loadInFlight)
    /\ slice' = sliceAfterUpdate(msg)
    /\ heap' = [heap EXCEPT ![slice'] = entries']
    /\ held' = [m |-> [slice |-> slice, entries |-> entries],
                msg |-> IF msg.type = "load"
                        THEN [slice |-> sliceOfMsg(msg), entries |-> msg.Entries]
                        ELSE held.msg]
    /\ UNCHANGED <<vaultVars, loaderVars, scrollVars, configVars>>

\* a key is pressed
KeyPress(k) == Deliver(KeyMsg(k), loadInFlight)

\* the terminal is resized
Resize(h) == Deliver(WindowSizeMsg(h), loadInFlight)

\* the load dispatched by Init completes and its message is delivered
EntriesLoaded(msg) ==
    /\ loadInFlight
    /\ Deliver(msg, FALSE)

\* a LoadEntriesMsg is handed to Update whether or not a load is in flight
\* (Update is exported and the tests call it directly)
SendLoadEntries(msg) == Deliver(msg, loadInFlight)


(***************************************************************************)
(* package vault.  A Go string is modelled as the sequence of its          *)
(* characters, so that parsing, suffix tests and comparisons are computed. *)
(***************************************************************************)
Digits == <<"0", "1", "2", "3", "4", "5", "6", "7", "8", "9">>
DigitChars == {Digits[i] : i \in 1..10}
digitVal(c) == (CHOOSE i \in 1..10 : Digits[i] = c) - 1

\* the characters of the model in the order of their byte values
Ascii == <<"\n", " ", "#", "-", ".", "/",
           "0", "1", "2", "3", "4", "5", "6", "7", "8", "9",
           "A", "D", "E", "M", "R",
           "a", "d", "e", "h", "i", "m", "n", "o", "t", "v", "x">>
byte(c) == CHOOSE i \in 1..Len(Ascii) : Ascii[i] = c

\* a < b on Go strings: bytewise lexicographic
stringLess(a, b) ==
    LET n == IF Len(a) < Len(b) THEN Len(a) ELSE Len(b)
        diff == {i \in 1..n : a[i] # b[i]}
    IN  IF diff = {}
        THEN Len(a) < Len(b)
        ELSE LET i == CHOOSE j \in diff : \A k \in diff : j <= k
             IN  byte(a[i]) < byte(b[i])

\* strings.HasSuffix, strings.TrimSuffix
HasSuffix(s, suffix) ==
    /\ Len(s) >= Len(suffix)
    /\ SubSeq(s, Len(s) - Len(suffix) + 1, Len(s)) = suffix
TrimSuffix(s, suffix) ==
    IF HasSuffix(s, suffix) THEN SubSeq(s, 1, Len(s) - Len(suffix)) ELSE s

MdSuffix == <<".", "m", "d">>

\* time.Time.Format("2006-01-02") of a date, used to write the inputs down
Pad2(n) == <<Digits[(n \div 10) + 1], Digits[(n % 10) + 1]>>
FormatDate(y, m, d) ==
    Pad2(y \div 100) \o Pad2(y % 100) \o <<"-">> \o Pad2(m) \o <<"-">> \o Pad2(d)

(***************************************************************************)
(* time.Parse("2006-01-02", value) succeeds: a four-digit year, "-", a     *)
(* two-digit month in 1..12, "-", a two-digit day in 1..daysIn(month,      *)
(* year), and no text after it.                                            *)
(***************************************************************************)
isLeap(year) == year % 4 = 0 /\ (year % 100 # 0 \/ year % 400 = 0)

daysIn(month, year) ==
    IF month = 2 /\ isLeap(year)
    THEN 29
    ELSE <<31, 28, 31, 30, 31, 30, 31, 31, 30, 31, 30, 31>>[month]

isDigit(s, i) == i <= Len(s) /\ s[i] \in DigitChars
num2(s, i) == 10 * digitVal(s[i]) + digitVal(s[i + 1])

\* the parse with the day only held to 1..31, whatever the month
timeParseDayUpTo31(value) ==
    /\ \A i \in 1..4 : isDigit(value, i)
    /\ Len(value) >= 5 /\ value[5] = "-"
    /\ isDigit(value, 6) /\ isDigit(value, 7)
    /\ Len(value) >= 8 /\ value[8] = "-"
    /\ isDigit(value, 9) /\ isDigit(value, 10)
    /\ Len(value) = 10
    /\ LET month == num2(value, 6)
           day == num2(value, 9)
       IN  /\ month >= 1 /\ month <= 12
           /\ day >= 1 /\ day <= 31

timeParseOK(value) ==
    /\ \A i \in 1..4 : isDigit(value, i)
    /\ Len(value) >= 5 /\ value[5] = "-"
    /\ isDigit(value, 6) /\ isDigit(value, 7)
    /\ Len(value) >= 8 /\ value[8] = "-"
    /\ isDigit(value, 9) /\ isDigit(value, 10)
    /\ Len(value) = 10
    /\ LET year == 100 * num2(value, 1) + num2(value, 3)
           month == num2(value, 6)
           day == num2(value, 9)
       IN  /\ month >= 1 /\ month <= 12
           /\ day >= 1 /\ day <= daysIn(month, year)

isValidDateFormat(filename) ==
    IF ~HasSuffix(filename, MdSuffix)
    THEN FALSE
    ELSE timeParseOK(TrimSuffix(filename, MdSuffix))

(***************************************************************************)
(* Inputs of the store: the names a child of the directory can have, the   *)
(* date strings handed to the Vault methods, the contents written.         *)
(***************************************************************************)
VaultDirectory == <<"/", "v">>

EntryDates == {FormatDate(2024, 2, 29), FormatDate(2024, 1, 15), FormatDate(2023, 12, 31)}

\* date arguments: the API takes any string, so an impossible date too
DateArgs == EntryDates \cup {FormatDate(2023, 2, 29)}

OtherNames ==
    {FormatDate(2024, 13, 1) \o MdSuffix,
     FormatDate(2024, 1, 32) \o MdSuffix,
     <<"n", "o", "t", "-", "a", "-", "d", "a", "t", "e", ".", "m", "d">>,
     <<"R", "E", "A", "D", "M", "E", ".", "m", "d">>,
     FormatDate(2024, 1, 15) \o <<".", "t", "x", "t">>}

ChildNames == {d \o MdSuffix : d \in DateArgs} \cup OtherNames

WriteContents == {<<>>, <<"h", "i">>}
ExternalContent == <<"x">>

\* the zero time.Time; every time the file system records is later
ZeroTime == 0

\* a file as os.WriteFile leaves it; mtime is the file system's clock reading
RegularFile(content) ==
    [kind |-> "file", content |-> content, size |-> Len(content), mtime |-> 1,
     mode |-> "rw"]
\* the size stat reports for a directory is the file system's; 4096 is a usual one
Subdirectory ==
    [kind |-> "dir", content |-> <<>>, size |-> 4096, mtime |-> 1, mode |-> "rw"]

\* files with the child name set to c
Put(name, c) ==
    [n \in (DOMAIN files) \cup {name} |-> IF n = name THEN c ELSE files[n]]
Room(name) == name \in DOMAIN files \/ Cardinality(DOMAIN files) < MaxFiles

Return(op, arg, val, e) == [op |-> op, arg |-> arg, val |-> val, err |-> e]

\* the record of the store's last write of a date
NoWrite == [written |-> FALSE, content |-> <<>>]
Wrote(content) == [written |-> TRUE, content |-> content]

(***************************************************************************)
(* Vault methods as functions of the directory.                            *)
(***************************************************************************)
\* filepath.Join(v.Directory, date+".md")
DatePath(date) == VaultDirectory \o <<"/">> \o date \o MdSuffix

\* os.Stat(path) succeeds
statOK(date) == (date \o MdSuffix) \in DOMAIN files

EntryExists(date) == statOK(date)

\* GetEntryInfo that never copies the size stat reports
GetEntryInfoSizeUnset(date) ==
    IF statOK(date)
    THEN [Date |-> date, Path |-> DatePath(date), Exists |-> TRUE, Size |-> 0,
          ModTime |-> files[date \o MdSuffix].mtime]
    ELSE [Date |-> date, Path |-> DatePath(date), Exists |-> FALSE, Size |-> 0,
          ModTime |-> ZeroTime]

GetEntryInfo(date) ==
    IF statOK(date)
    THEN [Date |-> date, Path |-> DatePath(date), Exists |-> TRUE,
          Size |-> files[date \o MdSuffix].size,
          ModTime |-> files[date \o MdSuffix].mtime]
    ELSE [Date |-> date, Path |-> DatePath(date), Exists |-> FALSE, Size |-> 0,
          ModTime |-> ZeroTime]

\* ReadEntry that reports every failure of os.ReadFile as a missing entry
ReadEntryAlwaysNotFound(date) ==
    LET name == date \o MdSuffix
    IN  IF name \notin DOMAIN files
        THEN [val |-> <<>>, err |-> "does not exist"]
        ELSE IF files[name].kind = "dir" \/ files[name].mode # "rw"
             THEN [val |-> <<>>, err |-> "does not exist"]
             ELSE [val |-> files[name].content, err |-> "nil"]

\* os.ReadFile(path) and the error ReadEntry makes of its failure
ReadEntry(date) ==
    LET name == date \o MdSuffix
    IN  IF name \notin DOMAIN files
        THEN [val |-> <<>>, err |-> "does not exist"]
        ELSE IF files[name].kind = "dir" \/ files[name].mode # "rw"
             THEN [val |-> <<>>, err |-> "failed to read entry"]
             ELSE [val |-> files[name].content, err |-> "nil"]

\* os.ReadDir: the names of the children, sorted by filename
RECURSIVE sortedNames(_)
sortedNames(S) ==
    IF S = {}
    THEN <<>>
    ELSE LET least == CHOOSE n \in S : \A o \in S \ {n} : stringLess(n, o)
         IN  <<least>> \o sortedNames(S \ {least})
ReadDir == sortedNames(DOMAIN files)

\* a less function that sorts oldest first
sortLessAscending(a, b) == stringLess(a, b)

\* the less function ListEntries hands to sort.Slice
sortLess(a, b) == stringLess(b, a)

\* sort.Slice: the elements in the order less puts them (the names are distinct)
RECURSIVE insertSorted(_, _)
insertSorted(x, xs) ==
    IF xs = <<>>
    THEN <<x>>
    ELSE IF sortLess(x, Head(xs))
         THEN <<x>> \o xs
         ELSE <<Head(xs)>> \o insertSorted(x, Tail(xs))
RECURSIVE sortSlice(_)
sortSlice(xs) ==
    IF xs = <<>> THEN <<>> ELSE insertSorted(Head(xs), sortSlice(Tail(xs)))

\* the filter of ListEntries
keepEntry(name) ==
    /\ files[name].kind # "dir"
    /\ HasSuffix(name, MdSuffix)
    /\ isValidDateFormat(name)

ListEntries == sortSlice(SelectSeq(ReadDir, keepEntry))

ListEntriesInfo ==
    LET filenames == ListEntries
    IN  [i \in 1..Len(filenames) |-> GetEntryInfo(TrimSuffix(filenames[i], MdSuffix))]

(***************************************************************************)
(* Calls of the store, and changes made to the directory from outside.     *)
(***************************************************************************)
\* os.WriteFile(path, content, 0644) succeeds: the path is not a directory
\* and an existing file may be opened for writing
writeFileOK(name) ==
    name \in DOMAIN files => (files[name].kind = "file" /\ files[name].mode = "rw")

\* WriteEntry that opens the file for appending
writeEntryAppend(date, content) ==
    LET name == date \o MdSuffix
    IN  IF writeFileOK(name)
        THEN [files |-> Put(name, RegularFile(
                            (IF name \in DOMAIN files THEN files[name].content ELSE <<>>)
                                \o content)),
              err |-> "nil"]
        ELSE [files |-> files, err |-> "failed to write entry"]

\* WriteEntry that leaves the written file as the only child of the directory
writeEntryReplacesDirectory(date, content) ==
    LET name == date \o MdSuffix
    IN  IF writeFileOK(name)
        THEN [files |-> [n \in {name} |-> RegularFile(content)], err |-> "nil"]
        ELSE [files |-> files, err |-> "failed to write entry"]

\* the directory after WriteEntry(date, content), and the error returned
writeEntry(date, content) ==
    LET name == date \o MdSuffix
    IN  IF writeFileOK(name)
        THEN [files |-> Put(name, RegularFile(content)), err |-> "nil"]
        ELSE [files |-> files, err |-> "failed to write entry"]

WriteEntry(date, content) ==
    LET r == writeEntry(date, content)
    IN  /\ Room(date \o MdSuffix)
        /\ files' = r.files
        /\ ret' = Return("WriteEntry", date, <<>>, r.err)
        /\ lastWrite' = IF r.err = "nil"
                        THEN [lastWrite EXCEPT ![date] = Wrote(content)]
                        ELSE lastWrite
        /\ UNCHANGED <<dirStatus, tuiVars, loaderVars, scrollVars, configVars, heapVars>>

\* a template that ends in one newline
TemplateOneNewline(date) == <<"#", " ">> \o date \o <<"\n">>

Template(date) == <<"#", " ">> \o date \o <<"\n", "\n">>

\* CreateEntry without the check for an existing entry
createEntryOverwrites(date) == writeEntry(date, Template(date))

\* the directory after CreateEntry(date), and the error returned
createEntry(date) ==
    IF EntryExists(date)
    THEN [files |-> files, err |-> "already exists"]
    ELSE writeEntry(date, Template(date))

CreateEntry(date) ==
    LET r == createEntry(date)
    IN  /\ Room(date \o MdSuffix)
        /\ files' = r.files
        /\ ret' = Return("CreateEntry", date, <<>>, r.err)
        /\ lastWrite' = IF r.err = "nil"
                        THEN [lastWrite EXCEPT ![date] = Wrote(Template(date))]
                        ELSE lastWrite
        /\ UNCHANGED <<dirStatus, tuiVars, loaderVars, scrollVars, configVars, heapVars>>

\* os.ReadDir(v.Directory) succeeds
readDirOK == dirStatus = "ok"

CallListEntries ==
    /\ ret' = IF readDirOK
              THEN Return("ListEntries", <<>>, ListEntries, "nil")
              ELSE Return("ListEntries", <<>>, <<>>, "failed to read directory")
    /\ UNCHANGED <<files, dirStatus, lastWrite, tuiVars, loaderVars, scrollVars, configVars, heapVars>>

CallListEntriesInfo ==
    /\ ret' = IF readDirOK
              THEN Return("ListEntriesInfo", <<>>, ListEntriesInfo, "nil")
              ELSE Return("ListEntriesInfo", <<>>, <<>>, "failed to read directory")
    /\ UNCHANGED <<files, dirStatus, lastWrite, tuiVars, loaderVars, scrollVars, configVars, heapVars>>

CallReadEntry(date) ==
    /\ ret' = Return("ReadEntry", date, ReadEntry(date).val, ReadEntry(date).err)
    /\ UNCHANGED <<files, dirStatus, lastWrite, tuiVars, loaderVars, scrollVars, configVars, heapVars>>

CallEntryExists(date) ==
    /\ ret' = Return("EntryExists", date, EntryExists(date), "nil")
    /\ UNCHANGED <<files, dirStatus, lastWrite, tuiVars, loaderVars, scrollVars, configVars, heapVars>>

CallGetEntryInfo(date) ==
    /\ ret' = Return("GetEntryInfo", date, GetEntryInfo(date), "nil")
    /\ UNCHANGED <<files, dirStatus, lastWrite, tuiVars, loaderVars, scrollVars, configVars, heapVars>>

\* lastWrite once another program has written the file called name
Overwritten(name) ==
    [d \in DOMAIN lastWrite |-> IF d \o MdSuffix = name THEN NoWrite ELSE lastWrite[d]]

\* another program writes a file into the directory
ExternalWriteFile(name) ==
    /\ Room(name)
    /\ ~(name \in DOMAIN files /\ files[name].kind = "dir")
    /\ files' = Put(name, RegularFile(ExternalContent))
    /\ ret' = Return("os.WriteFile", name, <<>>, "nil")
    /\ lastWrite' = Overwritten(name)
    /\ UNCHANGED <<dirStatus, tuiVars, loaderVars, scrollVars, configVars, heapVars>>

\* another program makes a subdirectory
ExternalMkdir(name) ==
    /\ name \notin DOMAIN files
    /\ Room(name)
    /\ files' = Put(name, Subdirectory)
    /\ ret' = Return("os.Mkdir", name, <<>>, "nil")
    /\ UNCHANGED <<dirStatus, lastWrite, tuiVars, loaderVars, scrollVars, configVars, heapVars>>

(***************************************************************************)
(* package tui, the loader (model.go).  Content, lines, titles are Go      *)
(* strings: sequences of characters.                                       *)
(***************************************************************************)
\* the white space of the inputs, all of which strings.TrimSpace removes
WhiteSpace == {" ", "\t", "\r", "\n"}

RECURSIVE splitFrom(_, _, _)
\* strings.Split(s, "\n"): acc holds the finished lines, cur the line being read
splitFrom(s, acc, cur) ==
    IF s = <<>>
    THEN Append(acc, cur)
    ELSE IF Head(s) = "\n"
         THEN splitFrom(Tail(s), Append(acc, cur), <<>>)
         ELSE splitFrom(Tail(s), acc, Append(cur, Head(s)))

Split(s) == splitFrom(s, <<>>, <<>>)

RECURSIVE TrimLeft(_)
TrimLeft(s) ==
    IF s # <<>> /\ Head(s) \in WhiteSpace THEN TrimLeft(Tail(s)) ELSE s

RECURSIVE TrimRight(_)
TrimRight(s) ==
    IF s # <<>> /\ s[Len(s)] \in WhiteSpace
    THEN TrimRight(SubSeq(s, 1, Len(s) - 1))
    ELSE s

\* strings.TrimSpace
TrimSpace(s) == TrimRight(TrimLeft(s))

\* strings.HasPrefix
HasPrefix(s, prefix) ==
    Len(s) >= Len(prefix) /\ SubSeq(s, 1, Len(prefix)) = prefix

HeadingPrefix == <<"#", " ">>
Untitled == <<"(", "u", "n", "t", "i", "t", "l", "e", "d", ")">>

RECURSIVE findHeading(_, _)
\* the title loop from index i on: the index of the line it breaks at, -1 if it ends
findHeading(lines, i) ==
    IF i >= Len(lines)
    THEN -1
    ELSE IF HasPrefix(TrimSpace(lines[i + 1]), HeadingPrefix)
         THEN i
         ELSE findHeading(lines, i + 1)

RECURSIVE collectPreviewDropsBlanks(_, _, _, _, _)
\* a preview loop that skips every blank line
collectPreviewDropsBlanks(lines, i, preview, previewCount, previewLines) ==
    IF i < Len(lines) /\ previewCount < previewLines
    THEN IF TrimSpace(lines[i + 1]) # <<>>
         THEN collectPreviewDropsBlanks(lines, i + 1, Append(preview, lines[i + 1]),
                                        previewCount + 1, previewLines)
         ELSE collectPreviewDropsBlanks(lines, i + 1, preview, previewCount, previewLines)
    ELSE preview

RECURSIVE collectPreview(_, _, _, _, _)
\* the preview loop from index i on
collectPreview(lines, i, preview, previewCount, previewLines) ==
    IF i < Len(lines) /\ previewCount < previewLines
    THEN IF TrimSpace(lines[i + 1]) # <<>> \/ previewCount > 0
         THEN collectPreview(lines, i + 1, Append(preview, lines[i + 1]),
                             previewCount + 1, previewLines)
         ELSE collectPreview(lines, i + 1, preview, previewCount, previewLines)
    ELSE preview

extractTitleAndPreview(content, previewLines) ==
    LET lines == Split(content)
        h == findHeading(lines, 0)
        trimmed == TrimSpace(lines[h + 1])
        title == IF h >= 0
                 THEN TrimSpace(SubSeq(trimmed, 3, Len(trimmed)))
                 ELSE Untitled
        previewStart == IF h >= 0 THEN h + 1 ELSE 0
    IN  [title |-> title,
         preview |-> collectPreview(lines, previewStart, <<>>, 0, previewLines)]

\* the default of the preview_lines setting
DefaultPreviewLines == 5

\* vault.New: os.MkdirAll(absDir, 0700) succeeds
vaultNewOK == dirStatus # "unavailable"

\* createEntryFromDate: the Entry of a date, or the error of reading it
createEntryFromDate(date, previewLines) ==
    LET r == ReadEntry(date)
        x == extractTitleAndPreview(r.val, previewLines)
    IN  IF r.err # "nil"
        THEN [entry |-> <<>>, err |-> "failed to read entry"]
        ELSE [entry |-> [Date |-> date, Path |-> DatePath(date), Title |-> x.title,
                         Preview |-> x.preview, Expanded |-> FALSE],
              err |-> "nil"]

RECURSIVE loadEntriesStopsAtFailure(_, _)
\* an entries loop that ends at the first entry it cannot read
loadEntriesStopsAtFailure(entryFiles, previewLines) ==
    IF entryFiles = <<>>
    THEN <<>>
    ELSE LET e == createEntryFromDate(TrimSuffix(Head(entryFiles), MdSuffix), previewLines)
         IN  IF e.err # "nil"
             THEN <<>>
             ELSE <<e.entry>> \o loadEntriesStopsAtFailure(Tail(entryFiles), previewLines)

RECURSIVE loadEntriesReversed(_, _)
\* an entries loop that puts each entry in front of the ones before it
loadEntriesReversed(entryFiles, previewLines) ==
    IF entryFiles = <<>>
    THEN <<>>
    ELSE LET e == createEntryFromDate(TrimSuffix(Head(entryFiles), MdSuffix), previewLines)
         IN  loadEntriesReversed(Tail(entryFiles), previewLines)
                 \o (IF e.err # "nil" THEN <<>> ELSE <<e.entry>>)

RECURSIVE loadEntries(_, _)
\* the loop of loadEntriesFromVault over the listed file names
loadEntries(entryFiles, previewLines) ==
    IF entryFiles = <<>>
    THEN <<>>
    ELSE LET e == createEntryFromDate(TrimSuffix(Head(entryFiles), MdSuffix), previewLines)
         IN  (IF e.err # "nil" THEN <<>> ELSE <<e.entry>>)
                 \o loadEntries(Tail(entryFiles), previewLines)

\* loadEntriesFromVault that returns an error when it skipped an entry
loadEntriesFromVaultFailsOnSkip(previewLines) ==
    IF ~vaultNewOK
    THEN [Entries |-> <<>>, Error |-> "failed to initialize vault"]
    ELSE IF ~readDirOK
    THEN [Entries |-> <<>>, Error |-> "failed to list entries"]
    ELSE LET es == loadEntries(ListEntries, previewLines)
         IN  IF Len(es) < Len(ListEntries)
             THEN [Entries |-> <<>>, Error |-> "failed to load entry"]
             ELSE [Entries |-> es, Error |-> "nil"]

loadEntriesFromVault(previewLines) ==
    IF ~vaultNewOK
    THEN [Entries |-> <<>>, Error |-> "failed to initialize vault"]
    ELSE IF ~readDirOK
    THEN [Entries |-> <<>>, Error |-> "failed to list entries"]
    ELSE [Entries |-> loadEntries(ListEntries, previewLines), Error |-> "nil"]

\* the message the command returned by LoadEntriesCmd produces
LoadEntriesCmd(previewLines) ==
    LET r == loadEntriesFromVault(previewLines)
    IN  LoadEntriesMsg(r.Entries, r.Error)

\* the load dispatched by Init reads the directory and its message is delivered
LoadEntries ==
    /\ loadInFlight
    /\ Deliver(LoadEntriesCmd(DefaultPreviewLines), FALSE)

\* the load of a timeline configured with preview_lines = previewLines
LoadEntriesPreview(previewLines) ==
    /\ loadInFlight
    /\ Deliver(LoadEntriesCmd(previewLines), FALSE)

\* another program takes the read permission from a file
ExternalChmod(name) ==
    /\ name \in DOMAIN files
    /\ files[name].kind = "file"
    /\ files[name].mode = "rw"
    /\ files' = [files EXCEPT ![name].mode = "none"]
    /\ ret' = Return("os.Chmod", name, <<>>, "nil")
    /\ lastWrite' = Overwritten(name)
    /\ UNCHANGED <<dirStatus, tuiVars, loaderVars, scrollVars, configVars, heapVars>>

\* the journal directory loses its read permission ("unreadable") or cannot
\* be made at all ("unavailable")
DirStatuses == {"unreadable", "unavailable"}
ExternalBreakDirectory(status) ==
    /\ dirStatus = "ok"
    /\ dirStatus' = status
    /\ ret' = Return("os.Chmod", VaultDirectory, <<>>, "nil")
    /\ UNCHANGED <<files, lastWrite, tuiVars, loaderVars, scrollVars, configVars, heapVars>>

\* the lines entries are written with: blank, white space only, text, a heading,
\* an indented heading with spaces around its text
LineKinds ==
    { <<>>, <<" ">>, <<"a">>, <<"#", " ", "T">>, <<" ", "#", " ", " ", "b", " ">> }

RECURSIVE Join(_)
\* the content whose lines are ls
Join(ls) ==
    IF Len(ls) = 1 THEN ls[1] ELSE ls[1] \o <<"\n">> \o Join(Tail(ls))

Contents == { Join(ls) : ls \in UNION { [1..n -> LineKinds] : n \in 1..MaxLines } }

\* values of the preview_lines setting
PreviewLimits == 0..MaxPreview

NoExtraction ==
    [content |-> <<>>, previewLines |-> 0, done |-> TRUE,
     title |-> Untitled, preview |-> <<>>]

Pending(content, previewLines) ==
    [content |-> content, previewLines |-> previewLines, done |-> FALSE,
     title |-> <<>>, preview |-> <<>>]

\* createEntryFromDate hands the content it read to extractTitleAndPreview
Extract ==
    LET r == extractTitleAndPreview(extraction.content, extraction.previewLines)
    IN  /\ ~extraction.done
        /\ extraction' = [extraction EXCEPT !.done = TRUE,
                                            !.title = r.title,
                                            !.preview = r.preview]
        /\ UNCHANGED <<tuiVars, vaultVars, scrollVars, configVars, heapVars>>

(***************************************************************************)
(* package cmd: the commands `today` (today.go) and `view` (view.go), each *)
(* a sequential run; ret.val records what the run did: the outcome of      *)
(* config.Load, the I/O calls made in order, and for `today` the directory *)
(* as it was when the editor was started and how the editor ended.         *)
(***************************************************************************)
\* the regular expression ^\d{4}-\d{2}-\d{2}$ matches
dateRegexMatch(dateStr) ==
    /\ Len(dateStr) = 10
    /\ \A i \in {1, 2, 3, 4, 6, 7, 9, 10} : dateStr[i] \in DigitChars
    /\ dateStr[5] = "-"
    /\ dateStr[8] = "-"

\* isValidDateFormat of package cmd
cmdIsValidDateFormat(dateStr) ==
    IF ~dateRegexMatch(dateStr) THEN FALSE ELSE timeParseOK(dateStr)

\* the state of the directory after a successful vault.New (os.MkdirAll)
dirAfterNew == IF dirStatus = "absent" THEN "ok" ELSE dirStatus

\* config.Load succeeds or fails (a malformed .logmdconfig)
ConfigOutcomes == {"ok", "error"}
\* markdown.NewRenderer and Renderer.Render succeed or fail
RenderOutcomes == {"ok", "no renderer", "render error"}
\* the editor saves the file, leaves it, exits with a status, or cannot be run
EditorOutcomes == {"saved", "unchanged", "exit status", "not found"}
EditorContent == <<"e">>

\* the arguments of view: the date arguments and the malformed ones of the tests
MalformedDates ==
    {FormatDate(2024, 13, 1), FormatDate(2024, 1, 32),
     <<"2", "4", "-", "0", "1", "-", "1", "5">>,
     <<"2", "0", "2", "4", "/", "0", "1", "/", "1", "5">>,
     <<"2", "0", "2", "4", "-", "1", "-", "5">>,
     <<>>}
ViewArgs == DateArgs \cup MalformedDates

Ran(r, io) == [files |-> r.files, dirStatus |-> r.dirStatus, err |-> r.err, io |-> io]
Stay(e) == [files |-> files, dirStatus |-> dirStatus, err |-> e]
Opened(e) == [files |-> files, dirStatus |-> dirAfterNew, err |-> e]

\* runViewCommand with the date checked after the store is opened
runViewCommandValidatesLate(dateStr, cfg, render) ==
    IF cfg # "ok"
    THEN Ran(Stay("failed to load configuration"), <<"config.Load">>)
    ELSE IF ~vaultNewOK
    THEN Ran(Stay("failed to initialize journal directory"),
             <<"config.Load", "os.MkdirAll">>)
    ELSE IF ~cmdIsValidDateFormat(dateStr)
    THEN Ran(Opened("invalid date format"), <<"config.Load", "os.MkdirAll">>)
    ELSE IF ~EntryExists(dateStr)
    THEN Ran(Opened("does not exist"), <<"config.Load", "os.MkdirAll", "os.Stat">>)
    ELSE IF ReadEntry(dateStr).err # "nil"
    THEN Ran(Opened("failed to read entry"),
             <<"config.Load", "os.MkdirAll", "os.Stat", "os.ReadFile">>)
    ELSE Ran(Opened(CASE render = "no renderer" -> "failed to create markdown renderer"
                      [] render = "render error" -> "failed to render markdown"
                      [] OTHER -> "nil"),
             <<"config.Load", "os.MkdirAll", "os.Stat", "os.ReadFile">>)

\* runViewCommand that makes the entry it does not find
runViewCommandCreatesMissing(dateStr, cfg, render) ==
    IF ~cmdIsValidDateFormat(dateStr)
    THEN Ran(Stay("invalid date format"), <<>>)
    ELSE IF cfg # "ok"
    THEN Ran(Stay("failed to load configuration"), <<"config.Load">>)
    ELSE IF ~vaultNewOK
    THEN Ran(Stay("failed to initialize journal directory"),
             <<"config.Load", "os.MkdirAll">>)
    ELSE IF ~EntryExists(dateStr)
    THEN Ran([files |-> Put(dateStr \o MdSuffix, RegularFile(Template(dateStr))),
              dirStatus |-> dirAfterNew, err |-> "does not exist"],
             <<"config.Load", "os.MkdirAll", "os.Stat", "os.WriteFile">>)
    ELSE IF ReadEntry(dateStr).err # "nil"
    THEN Ran(Opened("failed to read entry"),
             <<"config.Load", "os.MkdirAll", "os.Stat", "os.ReadFile">>)
    ELSE Ran(Opened(CASE render = "no renderer" -> "failed to create markdown renderer"
                      [] render = "render error" -> "failed to render markdown"
                      [] OTHER -> "nil"),
             <<"config.Load", "os.MkdirAll", "os.Stat", "os.ReadFile">>)

\* runViewCommand: the directory after it, its error and its I/O calls
runViewCommand(dateStr, cfg, render) ==
    IF ~cmdIsValidDateFormat(dateStr)
    THEN Ran(Stay("invalid date format"), <<>>)
    ELSE IF cfg # "ok"
    THEN Ran(Stay("failed to load configuration"), <<"config.Load">>)
    ELSE IF ~vaultNewOK
    THEN Ran(Stay("failed to initialize journal directory"),
             <<"config.Load", "os.MkdirAll">>)
    ELSE IF ~EntryExists(dateStr)
    THEN Ran(Opened("does not exist"), <<"config.Load", "os.MkdirAll", "os.Stat">>)
    ELSE IF ReadEntry(dateStr).err # "nil"
    THEN Ran(Opened("failed to read entry"),
             <<"config.Load", "os.MkdirAll", "os.Stat", "os.ReadFile">>)
    ELSE Ran(Opened(CASE render = "no renderer" -> "failed to create markdown renderer"
                      [] render = "render error" -> "failed to render markdown"
                      [] OTHER -> "nil"),
             <<"config.Load", "os.MkdirAll", "os.Stat", "os.ReadFile">>)

\* the command `view <dateStr>` runs
RunView(dateStr, cfg, render) ==
    LET r == runViewCommand(dateStr, cfg, render)
    IN  /\ Cardinality(DOMAIN r.files) <= MaxFiles
        /\ files' = r.files
        /\ dirStatus' = r.dirStatus
        /\ ret' = Return("runViewCommand", dateStr,
                         [cfg |-> cfg, io |-> r.io, atEditor |-> r.files], r.err)
        /\ lastWrite' = lastWrite
        /\ UNCHANGED <<tuiVars, loaderVars, scrollVars, configVars, heapVars>>

\* the dates time.Now() can give, in the order of time
Clock == <<FormatDate(2023, 12, 31), FormatDate(2024, 1, 15), FormatDate(2024, 2, 29)>>
\* the four readings one run of `today` takes: in runTodayCommand, TodayPath,
\* TodayExists and CreateTodayEntry; a later reading is not an earlier date
ClockReadings ==
    { t \in [1..4 -> 1..Len(Clock)] : \A i \in 1..3 : t[i] <= t[i + 1] }

\* launchEditor on the file called name in the directory fs
launchEditor(editor, name, fs) ==
    CASE editor = "not found" ->
            [files |-> fs, err |-> "failed to run editor"]
      [] editor = "exit status" ->
            [files |-> fs, err |-> "editor exited with status"]
      [] editor = "saved" /\ ~(name \in DOMAIN fs /\ fs[name].kind = "dir") ->
            [files |-> [n \in (DOMAIN fs) \cup {name} |->
                            IF n = name THEN RegularFile(EditorContent) ELSE fs[n]],
             err |-> "nil"]
      [] OTHER -> [files |-> fs, err |-> "nil"]

NoEntryYet(t) == ~EntryExists(Clock[t[3]])

\* runTodayCommand that writes the template whether or not the entry exists
runTodayCommandAlwaysWrites(t, cfg, editor) ==
    IF cfg # "ok"
    THEN [files |-> files, dirStatus |-> dirStatus, atEditor |-> files,
          err |-> "failed to load configuration", io |-> <<"config.Load">>]
    ELSE IF ~vaultNewOK
    THEN [files |-> files, dirStatus |-> dirStatus, atEditor |-> files,
          err |-> "failed to initialize journal directory",
          io |-> <<"config.Load", "os.MkdirAll">>]
    ELSE LET entryPath == Clock[t[2]] \o MdSuffix
             c == writeEntry(Clock[t[4]], Template(Clock[t[4]]))
             io == <<"config.Load", "os.MkdirAll", "os.Stat", "os.WriteFile">>
         IN  IF c.err # "nil"
             THEN [files |-> c.files, dirStatus |-> dirAfterNew, atEditor |-> c.files,
                   err |-> "failed to create today's entry", io |-> io]
             ELSE LET e == launchEditor(editor, entryPath, c.files)
                  IN  [files |-> e.files, dirStatus |-> dirAfterNew,
                       atEditor |-> c.files,
                       err |-> IF e.err = "nil" THEN "nil" ELSE "failed to launch editor",
                       io |-> Append(io, "exec.Command")]

\* runTodayCommand: the directory after it, the directory when the editor was
\* started (or when the run ended without it), its error and its I/O calls
runTodayCommand(t, cfg, editor) ==
    IF cfg # "ok"
    THEN [files |-> files, dirStatus |-> dirStatus, atEditor |-> files,
          err |-> "failed to load configuration", io |-> <<"config.Load">>]
    ELSE IF ~vaultNewOK
    THEN [files |-> files, dirStatus |-> dirStatus, atEditor |-> files,
          err |-> "failed to initialize journal directory",
          io |-> <<"config.Load", "os.MkdirAll">>]
    ELSE LET entryPath == Clock[t[2]] \o MdSuffix
             c == IF NoEntryYet(t)
                  THEN createEntry(Clock[t[4]])
                  ELSE [files |-> files, err |-> "nil"]
             io == IF NoEntryYet(t)
                   THEN <<"config.Load", "os.MkdirAll", "os.Stat", "os.Stat">>
                            \o (IF c.files # files THEN <<"os.WriteFile">> ELSE <<>>)
                   ELSE <<"config.Load", "os.MkdirAll", "os.Stat">>
         IN  IF c.err # "nil"
             THEN [files |-> c.files, dirStatus |-> dirAfterNew, atEditor |-> c.files,
                   err |-> "failed to create today's entry", io |-> io]
             ELSE LET e == launchEditor(editor, entryPath, c.files)
                  IN  [files |-> e.files, dirStatus |-> dirAfterNew,
                       atEditor |-> c.files,
                       err |-> IF e.err = "nil" THEN "nil" ELSE "failed to launch editor",
                       io |-> Append(io, "exec.Command")]

\* lastWrite after a run of `today` that left the directory as after
lastWriteAfter(after) ==
    [d \in DOMAIN lastWrite |->
        LET name == d \o MdSuffix
        IN  IF name \in DOMAIN after /\ (name \notin DOMAIN files \/ after[name] # files[name])
            THEN IF after[name].content = Template(d)
                 THEN Wrote(Template(d))
                 ELSE NoWrite
            ELSE lastWrite[d]]

\* the command `today` runs
RunToday(t, cfg, editor) ==
    LET r == runTodayCommand(t, cfg, editor)
    IN  /\ Cardinality(DOMAIN r.files) <= MaxFiles
        /\ files' = r.files
        /\ dirStatus' = r.dirStatus
        /\ ret' = Return("runTodayCommand", Clock[t[2]],
                         [cfg |-> cfg, io |-> r.io, atEditor |-> r.atEditor,
                          editor |-> IF r.io[Len(r.io)] = "exec.Command"
                                     THEN editor ELSE "not run"],
                         r.err)
        /\ lastWrite' = lastWriteAfter(r.files)
        /\ UNCHANGED <<tuiVars, loaderVars, scrollVars, configVars, heapVars>>

\* the journal directory is removed while it is empty
ExternalRemoveDirectory ==
    /\ dirStatus = "ok"
    /\ DOMAIN files = {}
    /\ dirStatus' = "absent"
    /\ ret' = Return("os.Remove", VaultDirectory, <<>>, "nil")
    /\ UNCHANGED <<files, lastWrite, tuiVars, loaderVars, scrollVars, configVars, heapVars>>

(***************************************************************************)
(* package config (config.go) and the command `config` (cmd/config.go).    *)
(* viper resolves a key from the environment variable LOGMD_<KEY> when it  *)
(* is set and not empty, else from the configuration file when the file    *)
(* has the key, else from the default.                                     *)
(***************************************************************************)
Settings == {"directory", "editor", "preview_lines"}

\* the environment variable AutomaticEnv reads for a key, with the prefix LOGMD
EnvVar(key) ==
    CASE key = "directory" -> "LOGMD_DIRECTORY"
      [] key = "editor" -> "LOGMD_EDITOR"
      [] key = "preview_lines" -> "LOGMD_PREVIEW_LINES"
EnvVars == {EnvVar(key) : key \in Settings}

Unset == <<"unset">>
\* the values a variable, the file and SetDefault give a key
EnvValue(key) == <<"env", key>>
FileValue(key) == <<"file", key>>
DefaultValue(key) == <<"default", key>>
EnvValues(name) == {Unset, <<>>} \cup {EnvValue(key) : key \in {k \in Settings : EnvVar(k) = name}}

NoEnvironment == [name \in EnvVars |-> Unset]
NoConfigFile == [status |-> "absent", keys |-> {}]
ConfigFiles ==
    {NoConfigFile, [status |-> "malformed", keys |-> {}]}
        \cup {[status |-> "ok", keys |-> ks] : ks \in SUBSET Settings}

\* os.Getenv: the value, empty for a variable that is not set
Getenv(name) == IF environ[name] = Unset THEN <<>> ELSE environ[name]

\* viper's lookup of a key after SetDefault, ReadInConfig and AutomaticEnv
viperGet(key) ==
    IF Getenv(EnvVar(key)) # <<>>
    THEN Getenv(EnvVar(key))
    ELSE IF configFile.status = "ok" /\ key \in configFile.keys
         THEN FileValue(key)
         ELSE DefaultValue(key)

\* config.Load: the resolved settings, or the error of reading the file
Load ==
    IF configFile.status = "malformed"
    THEN [cfg |-> <<>>, err |-> "config file"]
    ELSE [cfg |-> [key \in Settings |-> viperGet(key)], err |-> "nil"]

\* config.GetConfigPath returns a path: os.Stat finds the file
hasConfigPath == configFile.status # "absent"

getSettingSource(envVar, hasConfigFile) ==
    IF Getenv(envVar) # <<>>
    THEN "Environment variable"
    ELSE IF hasConfigFile
         THEN "Configuration file"
         ELSE "Default value"

\* runConfigCommand: what displaySetting prints for each setting, or the error
runConfigCommand ==
    IF Load.err # "nil"
    THEN [report |-> <<>>, err |-> "failed to load configuration"]
    ELSE [report |-> [key \in Settings |->
                         [value |-> Load.cfg[key],
                          source |-> getSettingSource(EnvVar(key), hasConfigPath)]],
          err |-> "nil"]

\* the command `config` runs
RunConfig ==
    /\ ret' = Return("runConfigCommand", <<>>, runConfigCommand.report, runConfigCommand.err)
    /\ UNCHANGED <<files, dirStatus, lastWrite, tuiVars, loaderVars, scrollVars, configVars, heapVars>>

\* NewModel, then Init has dispatched LoadEntriesCmd; vault.New on an empty directory
InitBrowser ==
    /\ entries = NewModel.entries
    /\ cursor = NewModel.cursor
    /\ viewportHeight = NewModel.viewportHeight
    /\ scrollOffset = NewModel.scrollOffset
    /\ quitting = NewModel.quitting
    /\ loading = NewModel.loading
    /\ err = NewModel.err
    /\ cmd = "nil"
    /\ lastMsg = NoMsg
    /\ repeated = FALSE
    /\ loadInFlight = TRUE
    /\ loadsIssued = 1
    /\ panicked = FALSE
    /\ files = <<>>
    /\ ret = Return("New", VaultDirectory, <<>>, "nil")
    /\ dirStatus = "ok"
    /\ lastWrite = [d \in DateArgs |-> NoWrite]

Init ==
    /\ InitBrowser
    /\ extraction = NoExtraction
    /\ reclamps = 0
    /\ environ = NoEnvironment
    /\ configFile = NoConfigFile
    /\ InitHeap

\* one run of the timeline command: the only load is the one Init dispatched
Next ==
    \/ \E k \in Keys : KeyPress(k)
    \/ \E h \in Heights : Resize(h)
    \/ \E msg \in LoadResults : EntriesLoaded(msg)

Spec == Init /\ [][Next]_vars

\* one run of the timeline command, with the Model passed to each Update and
\* the load message kept by the caller
NextShared ==
    \/ \E k \in Keys : UpdateCall(KeyMsg(k))
    \/ \E h \in Heights : UpdateCall(WindowSizeMsg(h))
    \/ \E msg \in LoadResults : loadInFlight /\ UpdateCall(msg)

SpecShared == Init /\ [][NextShared]_vars

\* Update driven by any sequence of messages
NextAny ==
    \/ \E k \in Keys : KeyPress(k)
    \/ \E h \in Heights : Resize(h)
    \/ \E msg \in LoadMsgs : SendLoadEntries(msg)

SpecAny == Init /\ [][NextAny]_vars

\* the program runs until Update has returned tea.Quit
Running == ~quitting

\* the command returned by Init runs to its end and its message is delivered
LoadTask == \E msg \in LoadResults : Running /\ EntriesLoaded(msg)

\* one run of the timeline command up to the quit; the runtime runs the
\* load command in a goroutine of its own, which is scheduled fairly
NextRun ==
    \/ \E k \in Keys : Running /\ KeyPress(k)
    \/ \E h \in Heights : Running /\ Resize(h)
    \/ LoadTask

SpecRun == Init /\ [][NextRun]_vars /\ WF_vars(LoadTask)

\* the keys that do not change an entry
CursorKeys == Keys \ ToggleKeys

\* the timeline of a long journal: the load, then keys and resizes
NextNav ==
    \/ EntriesLoaded(LoadEntriesMsg(LongListing, "nil"))
    \/ \E k \in CursorKeys : KeyPress(k)
    \/ \E h \in Heights : Resize(h)

SpecNav == Init /\ [][NextNav]_vars

\* viewport heights the terminal heights give, and scroll offsets around the list
ViewportHeights == {h - 6 : h \in Heights}
ScrollOffsets == (0 - 2)..(MaxEntries + 2)

\* a loaded Model with a cursor on an entry and any scroll offset
InitScroll ==
    /\ \E n \in 1..MaxEntries : entries = Listing(n)
    /\ cursor \in 0..(Len(entries) - 1)
    /\ viewportHeight \in ViewportHeights
    /\ scrollOffset \in ScrollOffsets
    /\ quitting = FALSE
    /\ loading = FALSE
    /\ err = "nil"
    /\ cmd = "nil"
    /\ lastMsg = NoMsg
    /\ repeated = FALSE
    /\ loadInFlight = FALSE
    /\ loadsIssued = 1
    /\ panicked = FALSE
    /\ files = <<>>
    /\ ret = Return("New", VaultDirectory, <<>>, "nil")
    /\ dirStatus = "ok"
    /\ lastWrite = [d \in DateArgs |-> NoWrite]
    /\ extraction = NoExtraction
    /\ reclamps = 0
    /\ environ = NoEnvironment
    /\ configFile = NoConfigFile
    /\ InitHeap

\* m.adjustScroll() is called, the first time and again
AdjustScroll ==
    /\ reclamps < 2
    /\ scrollOffset' = adjustScroll(Model).scrollOffset
    /\ reclamps' = reclamps + 1
    /\ UNCHANGED <<entries, cursor, viewportHeight, quitting, loading, err, cmd,
                   lastMsg, repeated, loadInFlight, loadsIssued, panicked,
                   vaultVars, loaderVars, configVars, heapVars>>

NextScroll == AdjustScroll

SpecScroll == InitScroll /\ [][NextScroll]_vars

\* the store used through its methods while other programs change the directory
NextVault ==
    \/ \E d \in DateArgs, b \in WriteContents : WriteEntry(d, b)
    \/ \E d \in DateArgs : CreateEntry(d)
    \/ CallListEntries
    \/ CallListEntriesInfo
    \/ \E d \in DateArgs : CallReadEntry(d)
    \/ \E d \in DateArgs : CallEntryExists(d)
    \/ \E d \in DateArgs : CallGetEntryInfo(d)
    \/ \E n \in ChildNames : ExternalWriteFile(n)
    \/ \E n \in ChildNames : ExternalMkdir(n)

SpecVault == Init /\ [][NextVault]_vars

\* the names other programs use in the directory the timeline loads: entry
\* names and one that is no entry name
LoadNames ==
    {d \o MdSuffix : d \in EntryDates}
        \cup {<<"R", "E", "A", "D", "M", "E", ".", "m", "d">>}

\* the load has not read the directory yet, and the directory is in order
Preparing == loadInFlight /\ dirStatus = "ok"

\* the journal directory is filled and changed by the store and by other
\* programs, then the load of the timeline reads it
NextLoad ==
    \/ \E d \in DateArgs, b \in WriteContents : Preparing /\ WriteEntry(d, b)
    \/ \E d \in DateArgs : Preparing /\ CreateEntry(d)
    \/ \E n \in LoadNames : Preparing /\ ExternalWriteFile(n)
    \/ \E n \in LoadNames : Preparing /\ ExternalMkdir(n)
    \/ \E n \in LoadNames : Preparing /\ ExternalChmod(n)
    \/ \E st \in DirStatuses : Preparing /\ ExternalBreakDirectory(st)
    \/ LoadEntries

SpecLoad == Init /\ [][NextLoad]_vars

\* entries as they are written: empty, a line without a heading, and a
\* heading followed by a blank line and four lines of body, one of them blank
JournalContents ==
    {<<>>,
     <<"a">>,
     Join(<<HeadingPrefix \o <<"T">>, <<>>, <<"a">>, <<>>, <<"a">>, <<"a">>>>)}

\* a journal is written, some of it made unreadable, then the timeline loads
\* it with the preview_lines setting of the configuration
NextLoadAll ==
    \/ \E d \in DateArgs, b \in JournalContents : Preparing /\ WriteEntry(d, b)
    \/ \E n \in LoadNames : Preparing /\ ExternalMkdir(n)
    \/ \E n \in LoadNames : Preparing /\ ExternalChmod(n)
    \/ \E n \in PreviewLimits : LoadEntriesPreview(n)

SpecLoadAll == Init /\ [][NextLoadAll]_vars

\* the directory exists and can be written to
Writable == dirStatus = "ok"

\* the commands today and view run one after another on a journal directory
\* that the store and other programs write to, remove and make unavailable
NextCmd ==
    \/ \E t \in ClockReadings, cfg \in ConfigOutcomes, editor \in EditorOutcomes :
           RunToday(t, cfg, editor)
    \/ \E d \in ViewArgs, cfg \in ConfigOutcomes, render \in RenderOutcomes :
           RunView(d, cfg, render)
    \/ \E d \in EntryDates, b \in WriteContents : Writable /\ WriteEntry(d, b)
    \/ \E d \in EntryDates : Writable /\ ExternalMkdir(d \o MdSuffix)
    \/ ExternalRemoveDirectory
    \/ Writable /\ ExternalBreakDirectory("unavailable")

SpecCmd == Init /\ [][NextCmd]_vars

\* extractTitleAndPreview applied to one content with one preview_lines setting
InitExtract ==
    /\ InitBrowser
    /\ \E c \in Contents, n \in PreviewLimits : extraction = Pending(c, n)
    /\ reclamps = 0
    /\ environ = NoEnvironment
    /\ configFile = NoConfigFile
    /\ InitHeap

NextExtract == Extract

SpecExtract == InitExtract /\ [][NextExtract]_vars

\* the command `config` in any environment and with any configuration file
InitConfig ==
    /\ InitBrowser
    /\ extraction = NoExtraction
    /\ reclamps = 0
    /\ environ \in {e \in [EnvVars -> UNION {EnvValues(n) : n \in EnvVars}] :
                        \A n \in EnvVars : e[n] \in EnvValues(n)}
    /\ configFile \in ConfigFiles
    /\ InitHeap

NextConfig == RunConfig

SpecConfig == InitConfig /\ [][NextConfig]_vars

(***************************************************************************)
(* Properties of the timeline browser.                                     *)
(***************************************************************************)
Max(a, b) == IF a > b THEN a ELSE b
Min(a, b) == IF a < b THEN a ELSE b

\* C1: with N >= 1 entries and viewport height H, after every navigation key
\* the cursor is visible and the scroll is bounded:
\* scrollOffset <= cursor < scrollOffset + max(0, H-4) and
\* scrollOffset <= max(0, N - max(0, H-4)).
C1_ScrollInvariantAfterNavigation ==
    (lastMsg.type = "key" /\ lastMsg.key \in NavKeys /\ Len(entries) >= 1) =>
        LET H == viewportHeight
            N == Len(entries)
        IN  /\ scrollOffset <= cursor
            /\ cursor < scrollOffset + Max(0, H - 4)
            /\ scrollOffset <= Max(0, N - Max(0, H - 4))

\* C2: in every state reached by any sequence of key, resize and load
\* messages, a non-empty entry list has the cursor on one of its indices.
C2_CursorIsValidIndex ==
    Len(entries) > 0 => (0 <= cursor /\ cursor < Len(entries))

\* C3: right after a resize handled with entries present, the cursor is in
\* the window of the new height and the scroll is within its bounds.
C3_ResizeReclampsScroll ==
    (lastMsg.type = "resize" /\ Len(entries) > 0) =>
        LET visibleHeight == viewportHeight - 4
        IN  /\ scrollOffset <= cursor
            /\ cursor <= scrollOffset + visibleHeight - 1
            /\ 0 <= scrollOffset
            /\ scrollOffset <= Max(0, Len(entries) - visibleHeight)

\* C4: while the entry list is empty, a key other than q / ctrl+c changes
\* none of cursor, scrollOffset, entries, loading, err, quitting, and the
\* command returned is nil.
C4_KeysAreNoOpsWhileEmpty ==
    [][(Len(entries) = 0 /\ lastMsg'.type = "key" /\ lastMsg'.key \notin QuitKeys) =>
            /\ UNCHANGED <<cursor, scrollOffset, entries, loading, err, quitting>>
            /\ cmd' = "nil"]_vars

C4_Witness ==
    /\ lastMsg = KeyMsg("pgdown")
    /\ Len(entries) = 0
    /\ ~loading
    /\ err # "nil"
    /\ cursor = 0

\* C5: a load message sets loading to false; with an error it stores the
\* error and leaves entries as they were, without one it replaces entries by
\* the delivered list; cursor and scrollOffset keep their values either way.
C5_EntriesLoadedEffect ==
    [][lastMsg'.type = "load" =>
            /\ loading' = FALSE
            /\ cursor' = cursor
            /\ scrollOffset' = scrollOffset
            /\ IF lastMsg'.Error # "nil"
               THEN err' = lastMsg'.Error /\ entries' = entries
               ELSE entries' = lastMsg'.Entries]_vars

C5_Witness ==
    /\ lastMsg.type = "load"
    /\ lastMsg.Error # "nil"
    /\ err = lastMsg.Error
    /\ Len(entries) = 2
    /\ cursor = 1
    /\ ~loading

\* C6: whenever loading is true, entries is empty, err is unset and cursor
\* and scrollOffset are 0, however keys and resizes interleave with the
\* load; so the load's message finds cursor and scroll at 0.
C6_LoadingStateIsPristine ==
    /\ loading => (entries = <<>> /\ err = "nil" /\ cursor = 0 /\ scrollOffset = 0)
    /\ lastMsg.type = "load" => (cursor = 0 /\ scrollOffset = 0)

C6_Witness ==
    /\ loading
    /\ lastMsg = KeyMsg("end")
    /\ viewportHeight = 5

\* C7: once loading is false it stays false, every command Update returns
\* is nil or Quit, and the load dispatched by Init is the only one.
C7_NoSecondLoad ==
    /\ [][~loading => ~loading']_vars
    /\ [](cmd \in {"nil", "quit"} /\ loadsIssued = 1)

C7_Witness ==
    /\ ~loading
    /\ ~loadInFlight
    /\ err # "nil"
    /\ lastMsg.type = "key"
    /\ loadsIssued = 1

\* C8: handing Update the same successful load message again leaves the
\* entry list as the first delivery made it.
C8_RepeatedLoadIsIdempotent ==
    [][(lastMsg.type = "load" /\ lastMsg.Error = "nil" /\ lastMsg' = lastMsg) =>
            entries' = entries]_vars

C8_Witness ==
    /\ repeated
    /\ lastMsg.type = "load"
    /\ lastMsg.Error = "nil"
    /\ Len(lastMsg.Entries) = 2
    /\ entries = lastMsg.Entries

(***************************************************************************)
(* Properties of the entry store.                                          *)
(***************************************************************************)
\* day d of month m of year y is a day of the Gregorian calendar
RealDate(y, m, d) ==
    /\ m \in 1..12
    /\ d \in 1..31
    /\ m \in {4, 6, 9, 11} => d <= 30
    /\ m = 2 => d <= 29
    /\ (m = 2 /\ d = 29) => ((y % 4 = 0 /\ y % 100 # 0) \/ y % 400 = 0)

\* name is YYYY-MM-DD.md for a real date
IsEntryFileName(name) ==
    /\ Len(name) = 13
    /\ \A i \in {1, 2, 3, 4, 6, 7, 9, 10} : name[i] \in DigitChars
    /\ LET y == 1000 * digitVal(name[1]) + 100 * digitVal(name[2])
                    + 10 * digitVal(name[3]) + digitVal(name[4])
           m == 10 * digitVal(name[6]) + digitVal(name[7])
           d == 10 * digitVal(name[9]) + digitVal(name[10])
       IN  /\ RealDate(y, m, d)
           /\ name = FormatDate(y, m, d) \o <<".", "m", "d">>

Range(f) == {f[i] : i \in DOMAIN f}

\* C9: ListEntries returns exactly the names of the files in the directory
\* that are YYYY-MM-DD.md for a real Gregorian date.
C9_ListIsExactlyTheEntryFiles ==
    ret.op = "ListEntries" =>
        Range(ret.val) = {n \in DOMAIN files :
                              files[n].kind = "file" /\ IsEntryFileName(n)}

C9_Witness ==
    /\ ret.op = "ListEntries"
    /\ (FormatDate(2024, 2, 29) \o MdSuffix) \in DOMAIN files
    /\ (FormatDate(2023, 2, 29) \o MdSuffix) \in DOMAIN files
    /\ files[FormatDate(2023, 2, 29) \o MdSuffix].kind = "file"
    /\ Cardinality(DOMAIN files) = 3
    /\ ret.val = <<FormatDate(2024, 2, 29) \o MdSuffix>>

\* the day a date string names, as a number that grows with time
DayNumber(date) ==
    10000 * (1000 * digitVal(date[1]) + 100 * digitVal(date[2])
                 + 10 * digitVal(date[3]) + digitVal(date[4]))
        + 100 * (10 * digitVal(date[6]) + digitVal(date[7]))
        + (10 * digitVal(date[9]) + digitVal(date[10]))

StrictlyNewestFirst(dates) ==
    \A i, j \in 1..Len(dates) : i < j => DayNumber(dates[i]) > DayNumber(dates[j])

\* C10: the names ListEntries returns and the entries ListEntriesInfo
\* returns are in strictly descending date order.
C10_ListsAreNewestFirst ==
    /\ ret.op = "ListEntries" =>
           StrictlyNewestFirst([i \in 1..Len(ret.val) |-> TrimSuffix(ret.val[i], MdSuffix)])
    /\ ret.op = "ListEntriesInfo" =>
           StrictlyNewestFirst([i \in 1..Len(ret.val) |-> ret.val[i].Date])

C10_Witness ==
    /\ ret.op = "ListEntriesInfo"
    /\ Len(ret.val) = 3
    /\ ret.val[1].Date = FormatDate(2024, 2, 29)
    /\ ret.val[3].Date = FormatDate(2023, 12, 31)

\* the file name of a date's entry, as the spec's pathFor names it
EntryFile(date) == date \o <<".", "m", "d">>

\* C11: after a successful write(d, b) with no other write to d since,
\* read(d) returns exactly b, whatever d held before.
C11_WriteReadRoundTrip ==
    (ret.op = "ReadEntry" /\ lastWrite[ret.arg].written) =>
        (ret.err = "nil" /\ ret.val = lastWrite[ret.arg].content)

C11_Witness ==
    /\ ret.op = "ReadEntry"
    /\ lastWrite[ret.arg] = Wrote(<<>>)
    /\ ret.val = <<>>
    /\ ret.err = "nil"
    /\ \E d \in DateArgs \ {ret.arg} : lastWrite[d] = Wrote(<<"h", "i">>)

\* C12: create(d) on a date whose entry exists fails with "already exists"
\* and leaves the directory, that entry's content included, as it was.
C12_CreateExistingFails ==
    [][(ret'.op = "CreateEntry" /\ EntryFile(ret'.arg) \in DOMAIN files) =>
            (ret'.err = "already exists" /\ files' = files)]_vars

C12_Witness ==
    /\ ret.op = "CreateEntry"
    /\ ret.err = "already exists"
    /\ EntryFile(ret.arg) \in DOMAIN files
    /\ files[EntryFile(ret.arg)].content = <<"h", "i">>

\* C13: create(d) on a date with no entry succeeds, and then exists(d) is
\* true and read(d) returns "# " + d + two newlines and nothing else.
C13_CreateWritesTemplate ==
    /\ [][(ret'.op = "CreateEntry" /\ EntryFile(ret'.arg) \notin DOMAIN files) =>
              ret'.err = "nil"]_vars
    /\ []((ret.op = "CreateEntry" /\ ret.err = "nil") =>
              /\ EntryExists(ret.arg)
              /\ ReadEntry(ret.arg) =
                     [val |-> <<"#", " ">> \o ret.arg \o <<"\n", "\n">>, err |-> "nil"])

C13_Witness ==
    /\ ret.op = "CreateEntry"
    /\ ret.err = "nil"
    /\ ret.arg = FormatDate(2024, 1, 15)
    /\ Cardinality(DOMAIN files) = 2

\* C14: read(d) fails with "does not exist" exactly when exists(d) is false,
\* and a failed read leaves the directory as it was.
C14_ReadNotFoundIffAbsent ==
    /\ [](ret.op = "ReadEntry" =>
              ((ret.err = "does not exist") <=> ~EntryExists(ret.arg)))
    /\ [][(ret'.op = "ReadEntry" /\ ret'.err # "nil") => files' = files]_vars

C14_Witness ==
    /\ ret.op = "ReadEntry"
    /\ ret.err = "does not exist"
    /\ EntryFile(ret.arg) \notin DOMAIN files
    /\ Cardinality(DOMAIN files) = 2

\* C15: exists(d) is true exactly when a regular file is at pathFor(d); it
\* is false when nothing is there and when a directory is there.
C15_ExistsIffRegularFile ==
    ret.op = "EntryExists" =>
        (ret.val <=> (/\ EntryFile(ret.arg) \in DOMAIN files
                      /\ files[EntryFile(ret.arg)].kind = "file"))

\* C16: metadata(d) never fails; for an absent entry it gives exists=false,
\* size 0 and the zero time; for a present entry exists=true, the length of
\* the content last written and path = pathFor(d), computed at each call.
C16_MetadataReflectsFile ==
    ret.op = "GetEntryInfo" =>
        LET name == EntryFile(ret.arg)
            info == ret.val
        IN  /\ ret.err = "nil"
            /\ name \notin DOMAIN files =>
                   (~info.Exists /\ info.Size = 0 /\ info.ModTime = ZeroTime)
            /\ (name \in DOMAIN files /\ files[name].kind = "file") =>
                   /\ info.Exists
                   /\ info.Path = VaultDirectory \o <<"/">> \o name
                   /\ info.Size = Len(files[name].content)
                   /\ lastWrite[ret.arg].written =>
                          info.Size = Len(lastWrite[ret.arg].content)

C16_Witness ==
    /\ ret.op = "GetEntryInfo"
    /\ ret.val.Exists
    /\ ret.val.Size = 2
    /\ lastWrite[ret.arg] = Wrote(<<"h", "i">>)

\* the lines of a content: the texts between its line breaks
LinesOf(content) ==
    LET breaks == { i \in 1..Len(content) : content[i] = "\n" }
        edges == breaks \cup {0, Len(content) + 1}
        next(i) == CHOOSE j \in edges : j > i /\ \A e \in edges : e > i => j <= e
        starts == edges \ {Len(content) + 1}
        rank(i) == Cardinality({ e \in starts : e <= i })
    IN  [k \in 1..Cardinality(starts) |->
             LET from == CHOOSE e \in starts : rank(e) = k
             IN  SubSeq(content, from + 1, next(from) - 1)]

\* a text without the white space around it
Trimmed(s) ==
    LET ink == { i \in 1..Len(s) : s[i] \notin {" ", "\t", "\r", "\n"} }
    IN  IF ink = {} THEN <<>>
        ELSE SubSeq(s, CHOOSE i \in ink : \A j \in ink : i <= j,
                       CHOOSE i \in ink : \A j \in ink : j <= i)
IsBlank(s) == \A i \in 1..Len(s) : s[i] \in {" ", "\t", "\r", "\n"}
IsHeading(s) ==
    LET t == Trimmed(s) IN Len(t) >= 2 /\ t[1] = "#" /\ t[2] = " "

\* the title and the preview the extraction algorithm defines
ExtractionOf(content, n) ==
    LET lines == LinesOf(content)
        headings == { k \in DOMAIN lines : IsHeading(lines[k]) }
        heading == CHOOSE k \in headings : \A j \in headings : k <= j
        after == IF headings = {} THEN 0 ELSE heading
        body == { k \in DOMAIN lines : k > after /\ ~IsBlank(lines[k]) }
        first == CHOOSE k \in body : \A j \in body : k <= j
        last == Min(first + n - 1, Len(lines))
    IN  [title |-> IF headings = {}
                   THEN <<"(", "u", "n", "t", "i", "t", "l", "e", "d", ")">>
                   ELSE LET t == Trimmed(lines[heading])
                        IN  Trimmed(SubSeq(t, 3, Len(t))),
         preview |-> IF body = {} \/ n <= 0
                     THEN <<>>
                     ELSE [i \in 1..(last - first + 1) |-> lines[first + i - 1]]]

\* C19: for every content and every preview_lines the extracted title is the
\* trimmed text after "# " of the first line whose trimmed text starts with
\* "# " (else "(untitled)"), and the preview is the run of lines that starts
\* at the first non-blank line after the heading, blank lines inside the run
\* kept and counted, cut at preview_lines lines or the end of the content.
C19_ExtractionMatchesAlgorithm ==
    extraction.done =>
        LET e == ExtractionOf(extraction.content, extraction.previewLines)
        IN  extraction.title = e.title /\ extraction.preview = e.preview

C19_Witness ==
    /\ extraction.done
    /\ extraction.content =
           <<"#", " ", "T", "\n", "\n", "\n", "a", "\n", "\n",
             " ", "#", " ", " ", "b", " ">>
    /\ extraction.previewLines = 3
    /\ extraction.title = <<"T">>
    /\ extraction.preview = << <<"a">>, <<>>, <<" ", "#", " ", " ", "b", " ">> >>

\* C20: in Ready with entries the screen has a row for exactly the indices
\* scrollOffset .. min(scrollOffset + visibleHeight, len(entries)) - 1, with
\* visibleHeight = viewportHeight - 4 as in adjustScroll, so at most
\* visibleHeight rows.
C20_RenderedRowsAreTheWindow ==
    (~loading /\ err = "nil" /\ Len(entries) > 0) =>
        LET visibleHeight == viewportHeight - 4
            rows == View(Model).rows
        IN  /\ { rows[j].index : j \in DOMAIN rows } =
                   { i \in 0..(Len(entries) - 1) :
                         /\ scrollOffset <= i
                         /\ i <= Min(scrollOffset + visibleHeight, Len(entries)) - 1 }
            /\ Len(rows) <= Max(0, visibleHeight)

\* the dates of the listed entries a read succeeds on
ReadableEntryDates ==
    { d \in DateArgs :
          /\ IsEntryFileName(EntryFile(d))
          /\ EntryFile(d) \in DOMAIN files
          /\ files[EntryFile(d)].kind = "file"
          /\ files[EntryFile(d)].mode = "rw" }
\* the dates of the listed entries a read fails on
UnreadableEntryDates ==
    { d \in DateArgs :
          /\ IsEntryFileName(EntryFile(d))
          /\ EntryFile(d) \in DOMAIN files
          /\ files[EntryFile(d)].kind = "file"
          /\ files[EntryFile(d)].mode # "rw" }
DatesOf(es) == { es[i].Date : i \in DOMAIN es }

\* C17: when the directory can be listed, the load returns no error and the
\* entries of exactly the listed files that can be read, each once, whatever
\* subset of the listed files cannot be read.
C17_LoadToleratesUnreadableEntries ==
    (~loadInFlight /\ lastMsg.type = "load" /\ dirStatus = "ok") =>
        /\ lastMsg.Error = "nil"
        /\ DatesOf(lastMsg.Entries) = ReadableEntryDates
        /\ Len(lastMsg.Entries) = Cardinality(ReadableEntryDates)

C17_Witness ==
    /\ ~loadInFlight
    /\ lastMsg.type = "load"
    /\ lastMsg.Error = "nil"
    /\ Cardinality(UnreadableEntryDates) = 1
    /\ Len(lastMsg.Entries) = 2

\* C18: after the load the browser's error is set exactly when the store
\* could not be opened or the directory could not be listed; when only
\* single entries could not be read the browser is Ready, without an error,
\* and holds the entries that could be read.
C18_FailedOnlyOnTotalFailure ==
    ~loadInFlight =>
        /\ (err # "nil") <=> (dirStatus # "ok")
        /\ ~loading
        /\ dirStatus = "ok" => DatesOf(entries) = ReadableEntryDates

C18_Witness ==
    /\ ~loadInFlight
    /\ err = "nil"
    /\ ~loading
    /\ UnreadableEntryDates # {}
    /\ Len(entries) = 1
    /\ entries[1].Title = FormatDate(2024, 1, 15)

\* C21: the frame is the error line whenever the error is set, whatever
\* loading and entries are; else the loading message while loading; else the
\* empty-journal hint when there are no entries; else the title, the visible
\* rows and the help line.  Every reachable state gives one of the four.
C21_FrameIsDeterminedByPhase ==
    LET v == View(Model)
        window == visibleRange(Model)
    IN  /\ v.form \in {"error", "loading", "empty", "list"}
        /\ err # "nil" =>
               (v.form = "error" /\ v.text = err /\ v.rows = <<>> /\ v.help = "")
        /\ (err = "nil" /\ loading) =>
               (v.form = "loading" /\ v.text = "Loading journal entries..."
                    /\ v.rows = <<>> /\ v.help = "")
        /\ (err = "nil" /\ ~loading /\ Len(entries) = 0) =>
               (v.form = "empty" /\ v.text = "No journal entries found."
                    /\ v.rows = <<>> /\ v.help = "")
        /\ (err = "nil" /\ ~loading /\ Len(entries) > 0) =>
               /\ v.form = "list"
               /\ v.text = "Journal Timeline"
               /\ v.help = HelpText
               /\ \A j \in DOMAIN v.rows :
                      /\ v.rows[j].index = window.start + j - 1
                      /\ v.rows[j].date = entries[v.rows[j].index + 1].Date
                      /\ v.rows[j].selected = (v.rows[j].index = cursor)

C21_Witness ==
    /\ err # "nil"
    /\ Len(entries) > 0
    /\ View(Model).form = "error"
    /\ lastMsg.type = "load"

\* the string is YYYY-MM-DD for a real date
IsRealDateString(str) == IsEntryFileName(str \o <<".", "m", "d">>)

\* C22: a run of `today` leaves every file that was in the directory before
\* it as it was until the editor is started, today's entry included, and
\* what it adds before the editor is the template of a date that had no
\* entry.
C22_TodayKeepsExistingEntry ==
    [][ret'.op = "runTodayCommand" =>
           LET atEditor == ret'.val.atEditor
           IN  /\ \A n \in DOMAIN files : n \in DOMAIN atEditor /\ atEditor[n] = files[n]
               /\ \A n \in DOMAIN atEditor \ DOMAIN files :
                      \E d \in DateArgs :
                          /\ n = EntryFile(d)
                          /\ atEditor[n].content = <<"#", " ">> \o d \o <<"\n", "\n">>]_vars

C22_Witness ==
    /\ ret.op = "runTodayCommand"
    /\ ret.err = "nil"
    /\ EntryFile(ret.arg) \in DOMAIN ret.val.atEditor
    /\ ret.val.atEditor[EntryFile(ret.arg)].content = <<"h", "i">>
    /\ files[EntryFile(ret.arg)].content = <<"e">>

\* C23: view with an argument that is not YYYY-MM-DD for a real date fails
\* with "invalid date format" and has done no I/O: no configuration loaded,
\* no directory made, no file looked at, the directory as it was.
C23_ViewRejectsBadDateBeforeIO ==
    [][(ret'.op = "runViewCommand" /\ ~IsRealDateString(ret'.arg)) =>
           /\ ret'.err = "invalid date format"
           /\ ret'.val.io = <<>>
           /\ files' = files
           /\ dirStatus' = dirStatus]_vars

C23_Witness ==
    /\ ret.op = "runViewCommand"
    /\ ret.arg = FormatDate(2024, 1, 32)
    /\ ret.err = "invalid date format"
    /\ ret.val.cfg = "error"
    /\ dirStatus = "absent"

\* C24: view of a real date that has no entry fails with "does not exist"
\* when the configuration loads and the directory can be made, and no run of
\* view, whatever its outcome, changes the files of the directory.
C24_ViewChangesNoEntry ==
    /\ [][ret'.op = "runViewCommand" => files' = files]_vars
    /\ []((/\ ret.op = "runViewCommand"
           /\ IsRealDateString(ret.arg)
           /\ ret.val.cfg = "ok"
           /\ dirStatus # "unavailable"
           /\ EntryFile(ret.arg) \notin DOMAIN files) => ret.err = "does not exist")

C24_Witness ==
    /\ ret.op = "runViewCommand"
    /\ ret.err = "does not exist"
    /\ ret.arg = FormatDate(2024, 1, 15)
    /\ Cardinality(DOMAIN files) = 2

\* C25: with the load task scheduled fairly, a run of the browser, which
\* starts in Loading, reaches loading = false unless the user quits first.
C25_LoadEventuallyCompletes == <>(~loading \/ quitting)

C25_Witness ==
    /\ ~loading
    /\ ~quitting
    /\ ~loadInFlight
    /\ loadsIssued = 1
    /\ lastMsg.type = "load"

\* the cursor a key asks for, on a list of n entries with the cursor at c
CursorAfter(key, c, n) ==
    CASE key \in {"up", "k"} -> IF c > 0 THEN c - 1 ELSE c
      [] key \in {"down", "j"} -> IF c < n - 1 THEN c + 1 ELSE c
      [] key = "pgup" -> Max(0, c - 10)
      [] key = "pgdown" -> Min(n - 1, c + 10)
      [] key = "home" -> 0
      [] key = "end" -> n - 1
      [] OTHER -> c

\* C26: on a non-empty list a key sets the cursor to: up, one less unless at
\* 0; down, one more unless at the last entry; pgup, ten less but not under
\* 0; pgdown, ten more but not over the last entry; home, 0; end, the last
\* entry; and no other key and no other message moves the cursor.
C26_NavigationKeysMoveCursor ==
    [][/\ (lastMsg'.type = "key" /\ Len(entries) > 0) =>
              cursor' = CursorAfter(lastMsg'.key, cursor, Len(entries))
       /\ lastMsg'.type # "key" => cursor' = cursor]_vars

C26_Witness ==
    /\ lastMsg = KeyMsg("pgdown")
    /\ Len(entries) = LongListLen
    /\ cursor = 10
    /\ repeated = FALSE

\* C27: a resize to height h sets viewportHeight to h - 6, returns no
\* command and leaves entries, cursor, loading, err and quitting as they
\* were, in every phase.
C27_ResizeSetsViewportOnly ==
    [][lastMsg'.type = "resize" =>
           /\ viewportHeight' = lastMsg'.Height - 6
           /\ cmd' = "nil"
           /\ entries' = entries
           /\ cursor' = cursor
           /\ loading' = loading
           /\ err' = err
           /\ quitting' = quitting]_vars

C27_Witness ==
    /\ lastMsg = WindowSizeMsg(8)
    /\ viewportHeight = 2
    /\ err # "nil"
    /\ quitting

\* C28: enter or space flips the expanded flag of the entry under the cursor
\* and of no other entry, and leaves the entries otherwise, the cursor, the
\* scroll offset, the viewport height and the flags of the model as they
\* were; pressing the key twice gives back the model it started from.
C28_ToggleFlipsOnlyCursorEntry ==
    /\ [][(lastMsg'.type = "key" /\ lastMsg'.key \in ToggleKeys) =>
              /\ cursor' = cursor
              /\ scrollOffset' = scrollOffset
              /\ viewportHeight' = viewportHeight
              /\ loading' = loading /\ err' = err /\ quitting' = quitting
              /\ Len(entries') = Len(entries)
              /\ \A i \in 1..Len(entries) :
                     entries'[i] = IF i = cursor + 1
                                   THEN [entries[i] EXCEPT !.Expanded = ~entries[i].Expanded]
                                   ELSE entries[i]]_vars
    /\ [](\A k \in ToggleKeys :
              Update(Update(Model, KeyMsg(k)).m, KeyMsg(k)).m = Model)

C28_Witness ==
    /\ lastMsg = KeyMsg("enter")
    /\ repeated
    /\ Len(entries) = 3
    /\ cursor = 1
    /\ ~entries[2].Expanded
    /\ entries[1].Expanded

\* C29: q or ctrl+c, in Loading, Failed and Ready alike, sets quitting,
\* returns the quit command and leaves entries, cursor, scroll offset,
\* loading and err as they were; and no later message clears quitting.
C29_QuitHonoredAndSticky ==
    /\ [][(lastMsg'.type = "key" /\ lastMsg'.key \in QuitKeys) =>
              /\ quitting'
              /\ cmd' = "quit"
              /\ entries' = entries
              /\ cursor' = cursor
              /\ scrollOffset' = scrollOffset
              /\ loading' = loading
              /\ err' = err]_vars
    /\ [][quitting => quitting']_vars

C29_Witness ==
    /\ quitting
    /\ loading
    /\ lastMsg.type = "resize"
    /\ cmd = "nil"

\* the cursor is on an entry and at least one row is visible
ReclampApplies == viewportHeight - 4 >= 1 /\ 0 <= cursor /\ cursor < Len(entries)

\* C30: for a cursor on an entry and a visible height of at least 1,
\* adjustScroll leaves, whatever the scroll offset was, scrollOffset <=
\* cursor < scrollOffset + visibleHeight and 0 <= scrollOffset <=
\* max(0, len(entries) - visibleHeight); a second call changes nothing.
C30_ReclampEstablishesWindow ==
    /\ []((reclamps >= 1 /\ ReclampApplies) =>
              /\ scrollOffset <= cursor
              /\ cursor < scrollOffset + (viewportHeight - 4)
              /\ 0 <= scrollOffset
              /\ scrollOffset <= Max(0, Len(entries) - (viewportHeight - 4)))
    /\ [][(reclamps >= 1 /\ ReclampApplies) => scrollOffset' = scrollOffset]_vars

C30_Witness ==
    /\ reclamps = 2
    /\ Len(entries) = 3
    /\ cursor = 2
    /\ viewportHeight = 6
    /\ scrollOffset = 1

\* the place of an entry's file in the list of the store
ListIndex(date) == CHOOSE k \in DOMAIN ListEntries : ListEntries[k] = EntryFile(date)

\* the entries are some of the listed files, in the order of the list
InListOrder(es) ==
    /\ \A i \in DOMAIN es : \E k \in DOMAIN ListEntries : ListEntries[k] = EntryFile(es[i].Date)
    /\ \A i, j \in DOMAIN es : i < j => ListIndex(es[i].Date) < ListIndex(es[j].Date)
    /\ \A i, j \in DOMAIN es : i < j => DayNumber(es[i].Date) > DayNumber(es[j].Date)

\* C31: the entries a load returns are in the order of ListEntries, newest
\* first; each has the date of its file name without ".md", the path of that
\* date in the directory, Expanded unset, and a preview of at most
\* preview_lines lines.
C31_LoadKeepsOrderAndFillsEntries ==
    /\ []((~loadInFlight /\ lastMsg.type = "load" /\ lastMsg.Error = "nil") =>
              /\ entries = lastMsg.Entries
              /\ InListOrder(entries)
              /\ \A i \in DOMAIN entries :
                     /\ entries[i].Path = <<"/", "v", "/">> \o entries[i].Date \o <<".", "m", "d">>
                     /\ entries[i].Expanded = FALSE)
    /\ [][\A n \in PreviewLimits :
              (~loadInFlight' /\ LoadEntriesPreview(n)) =>
                  \A i \in DOMAIN entries' : Len(entries'[i].Preview) <= n]_vars

C31_Witness ==
    /\ ~loadInFlight
    /\ lastMsg.type = "load"
    /\ Len(entries) = 2
    /\ Cardinality(DOMAIN files) = 3
    /\ entries[1].Date = FormatDate(2024, 2, 29)
    /\ entries[2].Date = FormatDate(2023, 12, 31)
    /\ Len(files[EntryFile(entries[1].Date)].content) > 7
    /\ Len(entries[1].Preview) = 2
    /\ Len(entries[2].Preview) = 1

\* the last run of `today` got as far as starting the editor
EditorLaunched ==
    /\ ret.op = "runTodayCommand"
    /\ ret.val.io # <<>>
    /\ ret.val.io[Len(ret.val.io)] = "exec.Command"

\* C32: when `today` starts the editor, the file of the path it hands to the
\* editor exists: the path names the date whose entry was looked for and
\* made, also when the date changes between the readings of the clock.
C32_EditorOpensTheEntryOfToday ==
    EditorLaunched => EntryFile(ret.arg) \in DOMAIN ret.val.atEditor

\* the I/O calls of the last run that are name
CallsOf(name) == {i \in DOMAIN ret.val.io : ret.val.io[i] = name}

EditorFailed == EditorLaunched /\ ret.val.editor \in {"exit status", "not found"}

\* the editor is started after the store is open and with the entry in place
LaunchedOnOpenStoreAndEntry ==
    EditorLaunched =>
        /\ ret.val.cfg = "ok"
        /\ dirStatus = "ok"
        /\ \E i \in CallsOf("os.MkdirAll") : \A j \in CallsOf("exec.Command") : i < j
        /\ EntryFile(ret.arg) \in DOMAIN ret.val.atEditor

\* a failed editor is reported, run once, and nothing is taken back
EditorFailureIsReturned ==
    EditorFailed =>
        /\ ret.err = "failed to launch editor"
        /\ Cardinality(CallsOf("exec.Command")) = 1
        /\ files = ret.val.atEditor

\* without a store there is no editor
NoEditorWithoutStore ==
    (ret.op = "runTodayCommand" /\ (ret.val.cfg # "ok" \/ dirStatus = "unavailable")) =>
        /\ CallsOf("exec.Command") = {}
        /\ ret.err \in {"failed to load configuration",
                        "failed to initialize journal directory"}

\* the entry a run made is there with the template when its editor has failed
CreatedEntryStays ==
    (EditorFailed' /\ CallsOf("os.WriteFile")' # {}) =>
        \E d \in EntryDates :
            /\ EntryFile(d) \notin DOMAIN files
            /\ EntryFile(d) \in DOMAIN files'
            /\ files'[EntryFile(d)].kind = "file"
            /\ files'[EntryFile(d)].content = <<"#", " ">> \o d \o <<"\n", "\n">>

\* C33: `today` starts the editor only after the store is open and the entry
\* exists; when the editor cannot be started or exits non-zero the run
\* returns "failed to launch editor", has started it once, and the entry it
\* made is still there with the template; when the store cannot be opened
\* the editor is not started.
C33_TodayIsSequentialWithoutRollback ==
    /\ [](LaunchedOnOpenStoreAndEntry /\ EditorFailureIsReturned /\ NoEditorWithoutStore)
    /\ [][CreatedEntryStays]_vars

\* where the value of a setting in a report came from
SupplierOf(key, value) ==
    CASE value = <<"env", key>> -> "Environment variable"
      [] value = <<"file", key>> -> "Configuration file"
      [] value = <<"default", key>> -> "Default value"

\* C34: for each setting the source `config` prints is the one that gave the
\* value: the environment when LOGMD_<KEY> is set, else the configuration
\* file only when the file defines the key, else the default.
C34_ReportedSourceSuppliedTheValue ==
    (ret.op = "runConfigCommand" /\ ret.err = "nil") =>
        \A key \in Settings :
            /\ ret.val[key].source = SupplierOf(key, ret.val[key].value)
            /\ ret.val[key].source =
                   (IF environ[EnvVar(key)] \notin {<<"unset">>, <<>>}
                    THEN "Environment variable"
                    ELSE IF configFile.status = "ok" /\ key \in configFile.keys
                         THEN "Configuration file"
                         ELSE "Default value")

\* C35: scrollOffset is never negative, whatever keys are pressed and
\* whatever the viewport height, a height of 4 or less included.
C35_ScrollOffsetIsNeverNegative == scrollOffset >= 0

C35_Witness ==
    /\ viewportHeight - 4 < 0
    /\ lastMsg.type = "key"
    /\ lastMsg.key \in NavKeys
    /\ Len(entries) = 3
    /\ cursor = 1
    /\ scrollOffset > Len(entries)

\* C36: no slice index is out of range: enter and space never panic on
\* entries[cursor], and every index View reads in its visible range is at
\* least 0 and below the length of the list, after any keys, resizes and
\* loads, with a scroll offset left stale by a resize too.
C36_NoIndexOutOfRange ==
    /\ ~panicked
    /\ \A i \in viewReads(Model) : 0 <= i /\ i < Len(entries)

C36_Witness ==
    /\ lastMsg.type = "key"
    /\ lastMsg.key = "enter"
    /\ Len(entries) = 3
    /\ cursor = 2
    /\ entries[3].Expanded
    /\ viewportHeight = 5
    /\ scrollOffset = 0
    /\ viewReads(Model) = {0, 1}

\* what a held slice reads now
ReadsNow(h) == IF h.slice = "nil" THEN <<>> ELSE heap[h.slice]

\* C37: after Update(m, msg) the Model m that was passed reads as before the
\* call, the Expanded flags of its entries included, and so does the entry
\* list of the load message that supplied the entries: nothing is shared
\* between the old Model, the new Model and the load result.
C37_UpdateLeavesItsArgumentsUnchanged ==
    /\ ReadsNow(held.m) = held.m.entries
    /\ ReadsNow(held.msg) = held.msg.entries

\* C38: after any writes, creations and changes made by other programs the
\* views of the store agree: for every real date d, d.md is among the names
\* ListEntries returns exactly when EntryExists(d) is true, and every entry
\* ListEntriesInfo returns has Exists set.
C38_ListAndExistsAgree ==
    /\ \A d \in DateArgs :
           IsRealDateString(d) =>
               ((\E k \in DOMAIN ListEntries : ListEntries[k] = EntryFile(d))
                    <=> EntryExists(d))
    /\ \A k \in DOMAIN ListEntriesInfo : ListEntriesInfo[k].Exists

\* the children of the directory other than name are the same before and after
OthersUntouched(name) ==
    \A n \in (DOMAIN files \cup DOMAIN files') \ {name} :
        /\ n \in DOMAIN files
        /\ n \in DOMAIN files'
        /\ files'[n] = files[n]

\* C39: WriteEntry(d, b) and CreateEntry(d) leave every entry other than
\* d's as it was, in existence and in content; EntryExists, ReadEntry,
\* GetEntryInfo, ListEntries and ListEntriesInfo change no entry.
C39_OperationsTouchOnlyTheirEntry ==
    [][/\ ret'.op \in {"WriteEntry", "CreateEntry"} => OthersUntouched(EntryFile(ret'.arg))
       /\ ret'.op \in {"EntryExists", "ReadEntry", "GetEntryInfo", "ListEntries",
                       "ListEntriesInfo"} => files' = files]_vars

C39_Witness ==
    /\ ret.op = "WriteEntry"
    /\ ret.err = "nil"
    /\ ret.arg = FormatDate(2024, 1, 15)
    /\ Cardinality(DOMAIN files) = 3
    /\ EntryFile(FormatDate(2023, 12, 31)) \in DOMAIN files
    /\ files[EntryFile(FormatDate(2023, 12, 31))].content = <<"x">>
    /\ EntryFile(FormatDate(2024, 2, 29)) \in DOMAIN files
    /\ files[EntryFile(FormatDate(2024, 2, 29))].content = <<"#", " ">> \o FormatDate(2024, 2, 29) \o <<"\n", "\n">>
    /\ files[EntryFile(FormatDate(2024, 1, 15))].content = <<"h", "i">>

====
